---- MODULE Spec2Model ----
(***************************************************************************)
(* Model of the vault secret store (notshridhar/vault).                    *)
(*                                                                         *)
(* Spec        the lock directory driven by secret.rs: set_secret,         *)
(*             get_secret, remove_secret, and an outside writer that       *)
(*             overwrites a slot file.                                     *)
(* SpecAlloc   utils.rs get_minimum_available_value applied to an index    *)
(*             map as engine.rs set_secret / remove_secret apply it.       *)
(* SpecProvisioned  the same three calls of secret.rs, started from lock   *)
(*             directories that already hold secrets in distinct slots.    *)
(* SpecLedger  the calls of secret.rs together with check_crc_all, from    *)
(*             an empty lock directory.                                    *)
(* SpecList    set_secret, remove_secret and list_secret_paths_recursive.  *)
(* SpecCrc     crc.rs: a directory whose files are written and deleted,    *)
(*             and the four ledger calls made on it.                       *)
(* SpecPattern pattern.rs filter_pattern and explore_contents and utils.rs *)
(*             get_matching_keys applied to sets of keys.                  *)
(* SpecSteps   set_secret and remove_secret of secret.rs run statement by  *)
(*             statement, stopped at any point.                            *)
(* SpecFiles   pattern.rs match_files and remove_files on a working        *)
(*             directory.                                                  *)
(* SpecClear   clear_secret_files on the working directory next to a lock  *)
(*             directory that holds secrets.                               *)
(* SpecEngine  engine.rs get_secret and set_secret between the lock and the*)
(*             unlock directory, and an outside writer.                    *)
(* SpecScroll  algo.rs calculate_scroll_state in u16 arithmetic.           *)
(* SpecBook    the calls of secret.rs made with one password, next to the  *)
(*             book of what they put under each path.                      *)
(* SpecRecover the calls made on a path after a set_secret of it was stopped*)
(*             before update_crc.                                          *)
(* SpecStepsLedger  SpecSteps with check_crc_all made between the calls.   *)
(* SpecWidget  widget.rs: build, set_list, select_prev and select_next of a*)
(*             ListWidget.                                                 *)
(* SpecListPage  interactive.rs: the List page and the keys that move its  *)
(*             selection.                                                  *)
(* SpecLoop    logic.rs: the event loop, its pages and the history stack.  *)
(* SpecSync    sync.rs: SingleLock taken and dropped by concurrent threads.*)
(***************************************************************************)
EXTENDS Integers, Sequences, FiniteSets, TLC

\* ------------------------------------------------------------------------
\* Bounds of the model
\* ------------------------------------------------------------------------

\* number of distinct secret paths the callers use
NumPaths == 2

\* number of keys and the largest value of the maps allocation starts from
NumKeys == 4

MaxVal == 4

\* number of file names used in the directory crc.rs works on
NumFiles == 2

\* largest length of the generated keys, patterns and prefixes
MaxLen == 2

\* largest small argument of calculate_scroll_state
MaxScroll == 6

\* longest short list a ListWidget shows
MaxList == 4

\* number of threads that take the SingleLocks
NumThreads == 2

\* ------------------------------------------------------------------------
\* Inputs
\* ------------------------------------------------------------------------

PathNames == <<"x", "y", "z", "u", "w">>

Paths == {PathNames[i] : i \in 1..NumPaths}

\* contents handed to set; the empty string is a legal &str
ContentsSeq == <<"v", "w", "">>

Contents == {ContentsSeq[i] : i \in 1..Len(ContentsSeq)}

\* width the password is padded to before it is used as key
KeyLen == 32

PwA == <<"1">>

PwB == <<"0", "1">>

PwC == <<"2">>

PwLong == [i \in 1..(KeyLen + 1) |-> "9"]

PasswordSeq == <<PwA, PwB, PwC, PwLong>>

Passwords == {PasswordSeq[i] : i \in 1..Len(PasswordSeq)}

\* nonces aead::seal draws; three are enough for a draw to differ from the
\* bytes a file holds and from the bytes its ledger entry was taken of
Nonces == 0..2

\* slot ids for which the model keeps a file cell
SlotIds == 0..NumPaths

\* ------------------------------------------------------------------------
\* Bytes on disk
\* ------------------------------------------------------------------------

\* a file that does not exist
NoFile ==
    [kind |-> "absent", key |-> <<>>, data |-> [is_json |-> FALSE, str |-> "", obj |-> {}],
     nonce |-> 0, sum |-> 0]

\* contents.as_bytes()
as_bytes(contents) == [is_json |-> FALSE, str |-> contents, obj |-> {}]

\* serde_json::to_string of a map: the set of its members
to_string_json(map) ==
    [is_json |-> TRUE, str |-> "", obj |-> {<<k, map[k]>> : k \in DOMAIN map}]

\* serde_json::from_str of a serialized map
from_str_json(bytes) ==
    [k \in {m[1] : m \in bytes.obj} |-> (CHOOSE m \in bytes.obj : m[1] = k)[2]]

is_empty(bytes) == ~bytes.is_json /\ bytes.str = ""

\* u16::to_string: decimal digits, most significant first
RECURSIVE to_string_u16(_)
to_string_u16(n) ==
    IF n < 10 THEN <<n>> ELSE to_string_u16(n \div 10) \o <<n % 10>>

\* str::parse::<u16> of a digit string (leading zeros allowed)
RECURSIVE parse_u16(_)
parse_u16(digits) ==
    IF Len(digits) = 0 THEN 0
    ELSE 10 * parse_u16(SubSeq(digits, 1, Len(digits) - 1)) + digits[Len(digits)]

\* format!("{:0>32}", password): pad on the left with the character '0'
\* up to KeyLen characters; a longer password is left as it is
format_pad(password) ==
    IF Len(password) >= KeyLen THEN password
    ELSE [i \in 1..KeyLen |->
            IF i <= KeyLen - Len(password) THEN "0"
            ELSE password[i - (KeyLen - Len(password))]]

\* the padded form of every password of the model, computed once
Padded == [password \in Passwords |-> format_pad(password)]

\* let password = format!("{:0>32}", password)
pad_password(password) == Padded[password]

CryptoError == [ok |-> FALSE, val |-> NoFile]

\* bytes aead::seal produces for a key, a plaintext and a nonce
sealed(key, data, nonce) ==
    [kind |-> "sealed", key |-> key, data |-> data, nonce |-> nonce, sum |-> 0]

\* aead::seal draws a random 192-bit nonce: the bytes it returns repeat no
\* bytes produced before; 'used' are the nonces of the earlier bytes the
\* lock directory still knows of, and the draw is the first nonce not used
fresh_nonce(used) ==
    CHOOSE n \in Nonces : n \notin used /\ \A m \in Nonces : m < n => m \in used

\* aead::seal under the padded password: fails for a key that is not
\* KeyLen bytes and for an empty plaintext
encrypt(data, password, used) ==
    IF Len(pad_password(password)) # KeyLen \/ is_empty(data)
    THEN CryptoError
    ELSE [ok |-> TRUE, val |-> sealed(pad_password(password), data, fresh_nonce(used))]

\* aead::open that never compares the key
decrypt_any_key(bytes, password) ==
    IF bytes.kind # "sealed"
    THEN [ok |-> FALSE, val |-> as_bytes("")]
    ELSE [ok |-> TRUE, val |-> bytes.data]

\* aead::open under the padded password: succeeds only on bytes sealed
\* under the same key
decrypt(bytes, password) ==
    IF Len(pad_password(password)) # KeyLen
       \/ bytes.kind # "sealed"
       \/ bytes.key # pad_password(password)
    THEN [ok |-> FALSE, val |-> as_bytes("")]
    ELSE [ok |-> TRUE, val |-> bytes.data]

\* the number of values of a u16
U16 == 65536

DigitChars == <<"0", "1", "2", "3", "4", "5", "6", "7", "8", "9">>

\* format!("{:0>3}.vlt", index): the name of a slot file
slot_file_name(index) ==
    DigitChars[((index \div 100) % 10) + 1] \o DigitChars[((index \div 10) % 10) + 1]
        \o DigitChars[(index % 10) + 1] \o ".vlt"

\* position of an element in a sequence without repetitions
PosIn(seq, e) == CHOOSE i \in 1..Len(seq) : seq[i] = e

\* number of checksums sealed slot files can have
NumSealedSums == Cardinality(Nonces) * Len(ContentsSeq) * Len(PasswordSeq)

\* CRC32.checksum of a file's bytes: sealed bytes of different (key,
\* plaintext, nonce) have different checksums; other bytes can have any
\* checksum, also the one of a sealed file
checksum(bytes) ==
    IF bytes.kind = "sealed"
    THEN 1 + bytes.nonce
           + Cardinality(Nonces) * ((PosIn(ContentsSeq, bytes.data.str) - 1)
                                    + Len(ContentsSeq)
                                      * ((CHOOSE i \in 1..Len(PasswordSeq) :
                                             pad_password(PasswordSeq[i]) = bytes.key) - 1))
    ELSE bytes.sum

\* checksums of bytes written from outside
RawSums == 0..NumSealedSums

RawBytes == {[NoFile EXCEPT !.kind = "raw", !.sum = s] : s \in RawSums}

\* ------------------------------------------------------------------------
\* The lock directory and the file helpers of secret.rs
\* ------------------------------------------------------------------------

VARIABLES
    index_vlt,    \* bytes of vault-lock/index.vlt, or NoFile
    slot_files,   \* bytes of vault-lock/NNN.vlt per slot id, or NoFile
    index_crc,    \* vault-lock/index.crc: whether it exists and its map
    last,         \* the last call made and what it returned
    dict,         \* utils.rs: the index map (Dict) the allocator works on
    alloc,        \* utils.rs: the last allocation made on dict
    crc_dir,      \* crc.rs: bytes of each file of root_dir, or NoFile
    crc_ledger,   \* crc.rs: root_dir/index.crc: whether it exists and its map
    crc_last,     \* crc.rs: the last call made on root_dir and what it returned
    pat_keys,     \* pattern.rs: the keys the matcher is applied to
    pat_last,     \* pattern.rs: the last application of the matcher and its result
    fs_tree,      \* pattern.rs: the files and directories under the working directory
    fs_last,      \* pattern.rs: the last call made on the working directory
    run,          \* secret.rs: the call in progress and the statement it has reached
    scroll,       \* algo.rs: the last call of calculate_scroll_state
    eng,          \* engine.rs: the lock and unlock directories of the bulk calls
    book,         \* what the calls made so far put under each path
    widget,       \* widget.rs: the ListWidget on screen
    tui,          \* logic.rs: the page on screen and the history stack
    sync          \* sync.rs: the SingleLock and the threads that take it

vault_vars == <<index_vlt, slot_files, index_crc, last>>

alloc_vars == <<dict, alloc>>

crc_vars == <<crc_dir, crc_ledger, crc_last>>

pat_vars == <<pat_keys, pat_last>>

fs_vars == <<fs_tree, fs_last>>

more_vars == <<run, scroll, eng, book>>

tui_vars == <<widget, tui, sync>>

vars == <<index_vlt, slot_files, index_crc, last, dict, alloc,
          crc_dir, crc_ledger, crc_last, pat_keys, pat_last,
          fs_tree, fs_last, run, scroll, eng, book,
          widget, tui, sync>>

\* the three kinds of files as one value, as the helpers pass them on
Disk == [index_vlt |-> index_vlt, slot_files |-> slot_files, index_crc |-> index_crc]

EmptyMap == [k \in {} |-> 0]

NoCrcFile == [exists |-> FALSE, map |-> EmptyMap]

Ok(contents) == [err |-> "None", contents |-> contents, index |-> 0]

IncorrectPassword == [err |-> "IncorrectPassword", contents |-> "", index |-> 0]

NonExistentPath == [err |-> "NonExistentPath", contents |-> "", index |-> 0]

CrcMismatch(file_index) == [err |-> "CrcMismatch", contents |-> "", index |-> file_index]

\* an unwrap() that failed: the call never returns
Panic == [err |-> "Panic", contents |-> "", index |-> 0]

\* read_index_file with the absent file taken for a failure
read_index_file_strict(d, password) ==
    LET contents_dec == decrypt(d.index_vlt, password)
    IN  IF contents_dec.ok
        THEN [ok |-> TRUE, val |-> from_str_json(contents_dec.val)]
        ELSE [ok |-> FALSE, val |-> EmptyMap]

\* absent file: empty map; otherwise decrypt and parse, a failed decrypt
\* is the error
read_index_file(d, password) ==
    IF d.index_vlt.kind = "absent" THEN [ok |-> TRUE, val |-> EmptyMap]
    ELSE LET contents_dec == decrypt(d.index_vlt, password)
         IN  IF contents_dec.ok
             THEN [ok |-> TRUE, val |-> from_str_json(contents_dec.val)]
             ELSE [ok |-> FALSE, val |-> EmptyMap]

write_index_file(d, index_map, password) ==
    LET contents_enc ==
            encrypt(to_string_json(index_map), password,
                    IF d.index_vlt.kind = "sealed" THEN {d.index_vlt.nonce} ELSE {})
    IN  IF contents_enc.ok
        THEN [ok |-> TRUE, disk |-> [d EXCEPT !.index_vlt = contents_enc.val]]
        ELSE [ok |-> FALSE, disk |-> d]

\* called only after check_crc found the file readable
read_encrypted_file(d, index, password) ==
    LET contents_raw == decrypt(d.slot_files[index], password)
    IN  IF contents_raw.ok THEN Ok(contents_raw.val.str) ELSE IncorrectPassword

\* write_encrypted_file that leaves an existing slot file as it is
write_encrypted_file_keep(d, index, contents, password) ==
    LET contents_enc == encrypt(as_bytes(contents), password, {})
    IN  IF ~contents_enc.ok THEN [ok |-> FALSE, disk |-> d]
        ELSE IF d.slot_files[index].kind # "absent" THEN [ok |-> TRUE, disk |-> d]
        ELSE [ok |-> TRUE, disk |-> [d EXCEPT !.slot_files[index] = contents_enc.val]]

write_encrypted_file(d, index, contents, password) ==
    LET known(bytes) ==
            \/ bytes = d.slot_files[index]
            \/ /\ index \in DOMAIN d.index_crc.map
               /\ checksum(bytes) = d.index_crc.map[index]
        contents_enc ==
            encrypt(as_bytes(contents), password,
                    {n \in Nonces :
                        known(sealed(pad_password(password), as_bytes(contents), n))})
    IN  IF contents_enc.ok
        THEN [ok |-> TRUE, disk |-> [d EXCEPT !.slot_files[index] = contents_enc.val]]
        ELSE [ok |-> FALSE, disk |-> d]

\* remove_encrypted_file that ignores the result and deletes nothing
remove_encrypted_file_noop(d, index) == [ok |-> TRUE, disk |-> d]

\* fs::remove_file(..).unwrap(): panics when the file is not there
remove_encrypted_file(d, index) ==
    IF d.slot_files[index].kind = "absent"
    THEN [ok |-> FALSE, disk |-> d]
    ELSE [ok |-> TRUE, disk |-> [d EXCEPT !.slot_files[index] = NoFile]]

\* fs::read of the slot file and its CRC32
compute_crc(d, index) ==
    IF d.slot_files[index].kind = "absent"
    THEN [ok |-> FALSE, val |-> 0]
    ELSE [ok |-> TRUE, val |-> checksum(d.slot_files[index])]

\* absent ledger file: empty map
read_crc_file(d) == d.index_crc.map

write_crc_file(d, crc_map) ==
    [d EXCEPT !.index_crc = [exists |-> TRUE, map |-> crc_map]]

\* check_crc that asks only for a ledger entry, not for an equal one
check_crc_present(d, file_index) ==
    /\ compute_crc(d, file_index).ok
    /\ file_index \in DOMAIN read_crc_file(d)

check_crc(d, file_index) ==
    LET stored_crc_all == read_crc_file(d)
        computed_crc == compute_crc(d, file_index)
    IN  /\ computed_crc.ok
        /\ file_index \in DOMAIN stored_crc_all
        /\ stored_crc_all[file_index] = computed_crc.val

\* update_crc that never deletes an entry
update_crc_insert(d, file_index) ==
    LET stored_crc_all == read_crc_file(d)
        computed_crc == compute_crc(d, file_index)
    IN  IF computed_crc.ok
        THEN write_crc_file(d,
                [k \in DOMAIN stored_crc_all \cup {file_index} |->
                    IF k = file_index THEN computed_crc.val ELSE stored_crc_all[k]])
        ELSE write_crc_file(d, stored_crc_all)

update_crc(d, file_index) ==
    LET stored_crc_all == read_crc_file(d)
        computed_crc == compute_crc(d, file_index)
    IN  IF computed_crc.ok
        THEN write_crc_file(d,
                [k \in DOMAIN stored_crc_all \cup {file_index} |->
                    IF k = file_index THEN computed_crc.val ELSE stored_crc_all[k]])
        ELSE write_crc_file(d,
                [k \in DOMAIN stored_crc_all \ {file_index} |-> stored_crc_all[k]])

\* the values of a map, one per key, in the order the map yields them
RECURSIVE map_values(_)
map_values(index_map) ==
    IF DOMAIN index_map = {} THEN <<>>
    ELSE LET k == CHOOSE k \in DOMAIN index_map : TRUE
         IN  <<parse_u16(index_map[k])>>
               \o map_values([j \in DOMAIN index_map \ {k} |-> index_map[j]])

\* VecExt::into_sorted
RECURSIVE into_sorted(_)
into_sorted(vec) ==
    IF Len(vec) = 0 THEN <<>>
    ELSE LET m == CHOOSE i \in 1..Len(vec) : \A j \in 1..Len(vec) : vec[i] <= vec[j]
         IN  <<vec[m]>> \o into_sorted(SubSeq(vec, 1, m - 1) \o SubSeq(vec, m + 1, Len(vec)))

\* .fold(0, |accum, val| if accum + 1 == val { val } else { accum })
RECURSIVE fold_index(_, _)
fold_index(accum, vec) ==
    IF Len(vec) = 0 THEN accum
    ELSE fold_index(IF accum + 1 = Head(vec) THEN Head(vec) ELSE accum, Tail(vec))

reserve_index(index_map, secret_path) ==
    LET new_index == fold_index(0, into_sorted(map_values(index_map)))
    IN  [new_index |-> new_index,
         index_map |-> [k \in DOMAIN index_map \cup {secret_path} |->
                          IF k = secret_path THEN to_string_u16(new_index)
                          ELSE index_map[k]]]

\* ------------------------------------------------------------------------
\* The public calls of secret.rs, each as the files it leaves and its result
\* ------------------------------------------------------------------------

get_secret(d, secret_path, password) ==
    LET index_map == read_index_file(d, password)
    IN  IF ~index_map.ok THEN IncorrectPassword
        ELSE IF secret_path \in DOMAIN index_map.val
        THEN LET file_index == parse_u16(index_map.val[secret_path])
             IN  IF ~check_crc(d, file_index) THEN CrcMismatch(file_index)
                 ELSE read_encrypted_file(d, file_index, password)
        ELSE NonExistentPath

\* set_secret that reserves an index also for a path the index knows
set_secret_reserve(d, secret_path, contents, password) ==
    LET index_map == read_index_file(d, password)
    IN  IF ~index_map.ok THEN [disk |-> d, result |-> IncorrectPassword]
        ELSE
        LET reserved == reserve_index(index_map.val, secret_path)
            indexed == write_index_file(d, reserved.index_map, password)
            written == write_encrypted_file(indexed.disk, reserved.new_index,
                                            contents, password)
        IN  IF ~indexed.ok THEN [disk |-> d, result |-> IncorrectPassword]
            ELSE IF ~written.ok THEN [disk |-> indexed.disk, result |-> IncorrectPassword]
            ELSE [disk |-> update_crc(written.disk, reserved.new_index),
                  result |-> Ok(contents)]

set_secret(d, secret_path, contents, password) ==
    LET index_map == read_index_file(d, password)
    IN  IF ~index_map.ok THEN [disk |-> d, result |-> IncorrectPassword]
        ELSE
        LET known == secret_path \in DOMAIN index_map.val
            reserved == reserve_index(index_map.val, secret_path)
            file_index == IF known THEN parse_u16(index_map.val[secret_path])
                          ELSE reserved.new_index
            indexed == IF known THEN [ok |-> TRUE, disk |-> d]
                       ELSE write_index_file(d, reserved.index_map, password)
            written == write_encrypted_file(indexed.disk, file_index, contents, password)
        IN  IF ~indexed.ok THEN [disk |-> d, result |-> IncorrectPassword]
            ELSE IF ~written.ok THEN [disk |-> indexed.disk, result |-> IncorrectPassword]
            ELSE [disk |-> update_crc(written.disk, file_index), result |-> Ok(contents)]

\* remove_secret that persists the index before it looks the path up
remove_secret_eager(d, secret_path, password) ==
    LET index_map == read_index_file(d, password)
    IN  IF ~index_map.ok THEN [disk |-> d, result |-> IncorrectPassword]
        ELSE
        LET removed_map == [k \in DOMAIN index_map.val \ {secret_path} |->
                               index_map.val[k]]
            indexed == write_index_file(d, removed_map, password)
        IN  IF ~indexed.ok THEN [disk |-> d, result |-> IncorrectPassword]
            ELSE IF secret_path \in DOMAIN index_map.val
            THEN LET file_index == parse_u16(index_map.val[secret_path])
                     removed == remove_encrypted_file(indexed.disk, file_index)
                 IN  IF ~removed.ok THEN [disk |-> indexed.disk, result |-> Panic]
                     ELSE [disk |-> update_crc(removed.disk, file_index),
                           result |-> Ok("")]
            ELSE [disk |-> indexed.disk, result |-> NonExistentPath]

remove_secret(d, secret_path, password) ==
    LET index_map == read_index_file(d, password)
    IN  IF ~index_map.ok THEN [disk |-> d, result |-> IncorrectPassword]
        ELSE IF secret_path \in DOMAIN index_map.val
        THEN LET file_index == parse_u16(index_map.val[secret_path])
                 removed_map == [k \in DOMAIN index_map.val \ {secret_path} |->
                                    index_map.val[k]]
                 indexed == write_index_file(d, removed_map, password)
                 removed == remove_encrypted_file(indexed.disk, file_index)
             IN  IF ~indexed.ok THEN [disk |-> d, result |-> IncorrectPassword]
                 ELSE IF ~removed.ok THEN [disk |-> indexed.disk, result |-> Panic]
                 ELSE [disk |-> update_crc(removed.disk, file_index), result |-> Ok("")]
        ELSE [disk |-> d, result |-> NonExistentPath]

\* ------------------------------------------------------------------------
\* pattern.rs and utils.rs: matching over in-memory keys
\* ------------------------------------------------------------------------

\* the strings of at most n characters over a set of characters
RECURSIVE StringsOver(_, _)
StringsOver(chars, n) ==
    IF n = 0 THEN {""}
    ELSE LET shorter == StringsOver(chars, n - 1)
         IN  shorter \cup {str \o c : str \in shorter, c \in chars}

\* keys of an index map
GenKeys == StringsOver({"a", "/"}, MaxLen)

ExampleKeySets ==
    {{"d1/f1", "d1/f2", "d1/s/f3", "d2/f1"},
     {"any", "else", "animal/dog", "animal/cat"},
     {"dir1/path1", "dir2/path1", "dir2/path2"},
     {"a", "b/c"},
     {"a", "!a"},
     {"a", "b/c/d"}}

\* the key sets the matcher is applied to: none, one or two generated
\* keys, the key sets of the tests, a file next to a directory, and a key
\* that starts with the character explore_contents marks directories with
KeySets == {{}} \cup {{k1, k2} : k1 \in GenKeys, k2 \in GenKeys} \cup ExampleKeySets

\* pattern strings and prefixes
PatArgs ==
    StringsOver({"a", "/", "*"}, MaxLen)
        \cup {"d1/*", "d1/**", "dir2/*", "dir**", "an", "animal/"}

\* the characters of the strings above, in the order of their bytes
CharOrder ==
    <<"!", "*", "/", "1", "2", "3", "a", "b", "c", "d", "e", "f", "g", "h", "i", "l",
      "m", "n", "o", "p", "r", "s", "t", "u", "w", "x", "y", "z">>

CharRank(c) == CHOOSE i \in 1..Len(CharOrder) : CharOrder[i] = c

\* Ord of str: the order of the bytes, a proper prefix first
RECURSIVE str_less(_, _)
str_less(a, b) ==
    IF Len(b) = 0 THEN FALSE
    ELSE IF Len(a) = 0 THEN TRUE
    ELSE IF SubSeq(a, 1, 1) = SubSeq(b, 1, 1)
    THEN str_less(SubSeq(a, 2, Len(a)), SubSeq(b, 2, Len(b)))
    ELSE CharRank(SubSeq(a, 1, 1)) < CharRank(SubSeq(b, 1, 1))

\* sort of a vector of distinct strings
RECURSIVE into_sorted_str(_)
into_sorted_str(strs) ==
    IF strs = {} THEN <<>>
    ELSE LET least == CHOOSE x \in strs : \A y \in strs \ {x} : str_less(x, y)
         IN  <<least>> \o into_sorted_str(strs \ {least})

starts_with(str, prefix) ==
    Len(prefix) <= Len(str) /\ SubSeq(str, 1, Len(prefix)) = prefix

ends_with(str, suffix) ==
    Len(suffix) <= Len(str) /\ SubSeq(str, Len(str) - Len(suffix) + 1, Len(str)) = suffix

strip_suffix(str, suffix) == SubSeq(str, 1, Len(str) - Len(suffix))

\* str.match_indices('/'): the positions of the separators
match_indices(str) == {i \in 1..Len(str) : SubSeq(str, i, i) = "/"}

\* str.matches('/').count()
matches_count(str) == Cardinality(match_indices(str))

\* the n-th position of a set of positions
Nth(positions, n) ==
    CHOOSE i \in positions : Cardinality({j \in positions : j < i}) = n - 1

RECURSIVE trim_start_matches(_, _)
trim_start_matches(str, c) ==
    IF Len(str) > 0 /\ SubSeq(str, 1, 1) = c
    THEN trim_start_matches(SubSeq(str, 2, Len(str)), c)
    ELSE str

\* Pattern::from_str
from_str(value) ==
    IF ends_with(value, "**")
    THEN [value |-> strip_suffix(value, "**"), kind |-> "Recursive"]
    ELSE IF ends_with(value, "*")
    THEN [value |-> strip_suffix(value, "*"), kind |-> "SameLevel"]
    ELSE [value |-> value, kind |-> "Exact"]

\* filter_pattern that takes a same-level pattern for a recursive one
RECURSIVE filter_pattern_deep(_, _)
filter_pattern_deep(items, pattern) ==
    IF items = <<>> THEN <<>>
    ELSE LET item_ref == Head(items)
             prefix == pattern.value
             is_match ==
                 CASE pattern.kind = "Exact" -> item_ref = prefix
                   [] pattern.kind = "SameLevel" -> starts_with(item_ref, prefix)
                   [] pattern.kind = "Recursive" -> starts_with(item_ref, prefix)
         IN  (IF is_match THEN <<item_ref>> ELSE <<>>)
                 \o filter_pattern_deep(Tail(items), pattern)

\* PatternFilter::filter_pattern over the items an iterator yields
RECURSIVE filter_pattern(_, _)
filter_pattern(items, pattern) ==
    IF items = <<>> THEN <<>>
    ELSE LET item_ref == Head(items)
             prefix == pattern.value
             pat_levels == matches_count(prefix)
             is_match ==
                 CASE pattern.kind = "Exact" -> item_ref = prefix
                   [] pattern.kind = "SameLevel" ->
                        starts_with(item_ref, prefix)
                            /\ matches_count(item_ref) = pat_levels
                   [] pattern.kind = "Recursive" -> starts_with(item_ref, prefix)
         IN  (IF is_match THEN <<item_ref>> ELSE <<>>)
                 \o filter_pattern(Tail(items), pattern)

\* utils.rs get_matching_keys: the matching keys of a map, sorted
get_matching_keys(map, pat) ==
    IF ends_with(pat, "**")
    THEN LET stripped == strip_suffix(pat, "**")
         IN  into_sorted_str({key \in DOMAIN map : starts_with(key, stripped)})
    ELSE IF ends_with(pat, "*")
    THEN LET stripped == strip_suffix(pat, "*")
             pat_levels == matches_count(stripped)
         IN  into_sorted_str({key \in DOMAIN map :
                                starts_with(key, stripped)
                                    /\ matches_count(key) = pat_levels})
    ELSE IF pat \in DOMAIN map THEN <<pat>> ELSE <<>>

\* the entry explore_contents makes of one item: the segment after the
\* prefix's last separator, marked with '!' and ended by the separator
\* when a separator follows
explore_entry(item_ref, prefix) ==
    LET prefix_levels == matches_count(prefix)
        slashes == match_indices(item_ref)
        start == IF prefix_levels = 0 THEN 1 ELSE Nth(slashes, prefix_levels) + 1
    IN  IF Cardinality(slashes) > prefix_levels
        THEN "!" \o SubSeq(item_ref, start, Nth(slashes, prefix_levels + 1))
        ELSE SubSeq(item_ref, start, Len(item_ref))

\* PatternFilter::explore_contents over the items an iterator yields
explore_contents(items, prefix) ==
    LET prefix_levels == matches_count(prefix)
        level_match(item_ref) ==
            \/ matches_count(item_ref) = prefix_levels
            \/ matches_count(item_ref) = prefix_levels + 1
        entries ==
            {explore_entry(item_ref, prefix) :
                item_ref \in {i \in items : starts_with(i, prefix) /\ level_match(i)}}
        sorted == into_sorted_str(entries)
    IN  [i \in 1..Len(sorted) |-> trim_start_matches(sorted[i], "!")]

\* the elements of a vector
Range(vec) == {vec[i] : i \in 1..Len(vec)}

\* the orders in which an iterator can yield the keys of a map
Orders(keys) ==
    {order \in [1..Cardinality(keys) -> keys] :
        \A i, j \in 1..Cardinality(keys) : i # j => order[i] # order[j]}

NoPatCall == [op |-> "none", arg |-> "", out |-> <<>>]

PatIdle == pat_keys = {} /\ pat_last = NoPatCall

\* ------------------------------------------------------------------------
\* crc.rs: a directory of files and its ledger index.crc
\* ------------------------------------------------------------------------

\* the directory the calls of crc.rs are made on
CRC_DIR == "crc-test-dir"

CrcFileNameSeq == <<"path", ".DS_Store", "other">>

\* names of the files that come and go in the directory
CrcFileNames == {CrcFileNameSeq[i] : i \in 1..NumFiles}

\* what fs::write puts into a file, with the CRC32 of each text: the first
\* and the third are different bytes of equal CRC32
CrcTexts == <<"first_val", "second_val", "third_val">>

CrcSums == <<1, 2, 1>>

CrcBytes ==
    {[NoFile EXCEPT !.kind = "raw", !.data = as_bytes(CrcTexts[i]), !.sum = CrcSums[i]] :
        i \in 1..Len(CrcTexts)}

\* a path to a file of the directory, by its components: the file name
\* alone (the caller stands in the directory), or the directory joined
\* with the file name
CrcPaths == {<<n>> : n \in CrcFileNames} \cup {<<CRC_DIR, n>> : n \in CrcFileNames}

\* PathExt::to_path_str: the whole path as a string
to_path_str(path) ==
    IF Len(path) = 1 THEN path[1] ELSE path[1] \o "/" \o path[2]

\* PathExt::to_filename_str: the final component of the path
to_filename_str(path) == path[Len(path)]

CrcOk == [ok |-> TRUE, file_path |-> ""]

CrcMismatchError(path) == [ok |-> FALSE, file_path |-> path]

NoCrcCall == [op |-> "none", path |-> <<>>, result |-> CrcOk, after |-> "other", rewrites |-> <<>>]

\* the directory exists and is empty, no call was made
CrcIdle ==
    /\ crc_dir = [n \in CrcFileNames |-> NoFile]
    /\ crc_ledger = NoCrcFile
    /\ crc_last = NoCrcCall

\* the directory and its ledger as one value
CrcDisk == [dir |-> crc_dir, ledger |-> crc_ledger]

\* ------------------------------------------------------------------------
\* The working directory of pattern.rs, the call in progress of secret.rs,
\* the scroll bar of algo.rs and the directories of engine.rs, at rest
\* ------------------------------------------------------------------------

NoTree == [files |-> {}, dirs |-> {}]

NoFsCall == [op |-> "none", pattern |-> "", out |-> <<>>, before |-> NoTree]

FsIdle == fs_tree = NoTree /\ fs_last = NoFsCall

NoRun == [op |-> "none"]

NoScroll == [op |-> "none"]

NoEngCall ==
    [op |-> "none", pattern |-> "", password |-> <<>>, result |-> Ok(""), done |-> <<>>]

\* an empty lock directory, an empty unlock directory, no call made
NoEng ==
    [index |-> NoFile, slots |-> [s \in SlotIds |-> NoFile], crc |-> EmptyMap,
     unlock |-> EmptyMap, last |-> NoEngCall]

\* no call made yet: no password chosen, nothing under any path
NoBook == [password |-> <<>>, entries |-> EmptyMap, in_order |-> TRUE]

\* no widget built
NoWidget == [built |-> FALSE, panic |-> FALSE, size_rows |-> 0, len |-> 0,
             selected_index |-> 0, viewport_index |-> 0]

NoTui == [op |-> "none"]

\* the threads of the program
Threads == 1..NumThreads

\* the SingleLocks of GlobalCache
Locks == {"pass", "index_map"}

\* SingleLock::new for every lock: no thread has called lock()
NoSync == [lock |-> [l \in Locks |-> FALSE],
           pc |-> [t \in Threads |-> "idle"],
           arg |-> [t \in Threads |-> "none"],
           guards |-> [t \in Threads |-> {}]]

TuiIdle == widget = NoWidget /\ tui = NoTui /\ sync = NoSync

MoreIdle ==
    run = NoRun /\ scroll = NoScroll /\ eng = NoEng /\ book = NoBook /\ TuiIdle

\* ------------------------------------------------------------------------
\* Actions
\* ------------------------------------------------------------------------

NoCall == [op |-> "none", path |-> "", password |-> <<>>, contents |-> "",
           slot |-> 0, after |-> "none", result |-> Ok(""), list |-> <<>>]

\* what came right before a call on (path, password): the name of the
\* preceding call when that one completed on the same path and password,
\* "tamper" when a slot file was overwritten, "other" in all other cases
After(path, password) ==
    IF last.op = "tamper" THEN "tamper"
    ELSE IF last.op \in {"set", "get", "remove"} /\ last.path = path
            /\ last.password = password /\ last.result.err = "None"
    THEN last.op
    ELSE "other"

Call(op, path, password, contents, result) ==
    [op |-> op, path |-> path, password |-> password, contents |-> contents,
     slot |-> 0, after |-> After(path, password), result |-> result, list |-> <<>>]

NoAlloc == [op |-> "none", key |-> "", val |-> 0, fresh |-> FALSE, before |-> {}]

AllocIdle == dict = EmptyMap /\ alloc = NoAlloc

\* an empty lock directory
Init ==
    /\ index_vlt = NoFile
    /\ slot_files = [s \in SlotIds |-> NoFile]
    /\ index_crc = NoCrcFile
    /\ last = NoCall
    /\ AllocIdle
    /\ CrcIdle
    /\ PatIdle
    /\ FsIdle
    /\ MoreIdle

Install(d) ==
    /\ index_vlt' = d.index_vlt
    /\ slot_files' = d.slot_files
    /\ index_crc' = d.index_crc

Get ==
    \E secret_path \in Paths, password \in Passwords :
        /\ UNCHANGED <<index_vlt, slot_files, index_crc>>
        /\ last' = Call("get", secret_path, password, "",
                        get_secret(Disk, secret_path, password))
        /\ UNCHANGED <<alloc_vars, crc_vars, pat_vars, fs_vars, more_vars, tui_vars>>

Set ==
    \E secret_path \in Paths, contents \in Contents, password \in Passwords :
        LET r == set_secret(Disk, secret_path, contents, password)
        IN  /\ Install(r.disk)
            /\ last' = Call("set", secret_path, password, contents, r.result)
            /\ UNCHANGED <<alloc_vars, crc_vars, pat_vars, fs_vars, more_vars, tui_vars>>

Remove ==
    \E secret_path \in Paths, password \in Passwords :
        LET r == remove_secret(Disk, secret_path, password)
        IN  /\ Install(r.disk)
            /\ last' = Call("remove", secret_path, password, "", r.result)
            /\ UNCHANGED <<alloc_vars, crc_vars, pat_vars, fs_vars, more_vars, tui_vars>>

\* somebody else overwrites an existing slot file with other bytes and
\* leaves the ledger alone; the new bytes have a checksum no sealed file
\* has, or the checksum of the bytes they replace
Tamper ==
    \E s \in SlotIds, bytes \in RawBytes :
        /\ slot_files[s].kind # "absent"
        /\ bytes # slot_files[s]
        /\ bytes.sum \in {0, checksum(slot_files[s])}
        /\ slot_files' = [slot_files EXCEPT ![s] = bytes]
        /\ UNCHANGED <<index_vlt, index_crc>>
        /\ last' = [NoCall EXCEPT !.op = "tamper", !.slot = s, !.after = "other"]
        /\ UNCHANGED <<alloc_vars, crc_vars, pat_vars, fs_vars, more_vars, tui_vars>>

Next == Get \/ Set \/ Remove \/ Tamper

Spec == Init /\ [][Next]_vars

\* ------------------------------------------------------------------------
\* secret.rs: the calls made with one password, next to the book of what
\* they put under each path
\* ------------------------------------------------------------------------

\* the passwords a call of the sequence can take: any for the first call,
\* the one of the calls before for the others
BookPasswords == IF book.password = <<>> THEN Passwords ELSE {book.password}

\* the book after a call: a call that returned an error ends the sequence
\* of completed calls
Booked(password, result, entries) ==
    IF result.err = "None"
    THEN [password |-> password, entries |-> entries, in_order |-> book.in_order]
    ELSE [password |-> password, entries |-> book.entries, in_order |-> FALSE]

BookGet ==
    \E secret_path \in Paths, password \in BookPasswords :
        /\ UNCHANGED <<index_vlt, slot_files, index_crc>>
        /\ last' = Call("get", secret_path, password, "",
                        get_secret(Disk, secret_path, password))
        /\ UNCHANGED <<alloc_vars, crc_vars, pat_vars, fs_vars, more_vars, tui_vars>>

BookSet ==
    \E secret_path \in Paths, contents \in Contents, password \in BookPasswords :
        LET r == set_secret(Disk, secret_path, contents, password)
        IN  /\ Install(r.disk)
            /\ last' = Call("set", secret_path, password, contents, r.result)
            /\ book' = Booked(password, r.result,
                              [k \in DOMAIN book.entries \cup {secret_path} |->
                                  IF k = secret_path THEN contents ELSE book.entries[k]])
            /\ UNCHANGED <<alloc_vars, crc_vars, pat_vars, fs_vars, run, scroll, eng, tui_vars>>

BookRemove ==
    \E secret_path \in Paths, password \in BookPasswords :
        LET r == remove_secret(Disk, secret_path, password)
        IN  /\ Install(r.disk)
            /\ last' = Call("remove", secret_path, password, "", r.result)
            /\ book' = Booked(password, r.result,
                              [k \in DOMAIN book.entries \ {secret_path} |->
                                  book.entries[k]])
            /\ UNCHANGED <<alloc_vars, crc_vars, pat_vars, fs_vars, run, scroll, eng, tui_vars>>

NextBook == BookGet \/ BookSet \/ BookRemove

SpecBook == Init /\ [][NextBook]_vars

\* ------------------------------------------------------------------------
\* secret.rs: the whole-directory check of the ledger
\* ------------------------------------------------------------------------

\* compute_crc_all: slot id -> CRC32 for every file of the lock directory
\* whose name starts with a number (index.vlt and index.crc do not)
compute_crc_all(d) ==
    [file_index \in {s \in SlotIds : d.slot_files[s].kind # "absent"} |->
        checksum(d.slot_files[file_index])]

\* check_crc_all that looks only at the files present
check_crc_all_present(d) ==
    LET stored_crc == read_crc_file(d)
        computed_crc == compute_crc_all(d)
        added_errors == {k \in DOMAIN computed_crc : k \notin DOMAIN stored_crc}
        diff_errors ==
            {k \in DOMAIN stored_crc :
                k \in DOMAIN computed_crc /\ computed_crc[k] # stored_crc[k]}
    IN  IF added_errors # {} THEN {CrcMismatch(k) : k \in added_errors}
        ELSE IF diff_errors # {} THEN {CrcMismatch(k) : k \in diff_errors}
        ELSE {Ok("")}

\* check_crc_all: the results it can give; the first error of the chain
\* is the one the maps' iteration order puts first
check_crc_all(d) ==
    LET stored_crc == read_crc_file(d)
        computed_crc == compute_crc_all(d)
        added_errors == {k \in DOMAIN computed_crc : k \notin DOMAIN stored_crc}
        removed_errors == {k \in DOMAIN stored_crc : k \notin DOMAIN computed_crc}
        diff_errors ==
            {k \in DOMAIN stored_crc :
                k \in DOMAIN computed_crc /\ computed_crc[k] # stored_crc[k]}
    IN  IF added_errors # {} THEN {CrcMismatch(k) : k \in added_errors}
        ELSE IF removed_errors # {} THEN {CrcMismatch(k) : k \in removed_errors}
        ELSE IF diff_errors # {} THEN {CrcMismatch(k) : k \in diff_errors}
        ELSE {Ok("")}

CheckAll ==
    \E result \in check_crc_all(Disk) :
        /\ UNCHANGED <<index_vlt, slot_files, index_crc>>
        /\ last' = [NoCall EXCEPT !.op = "check_all", !.after = "other", !.result = result]
        /\ UNCHANGED <<alloc_vars, crc_vars, pat_vars, fs_vars, more_vars, tui_vars>>

NextLedger == Get \/ Set \/ Remove \/ CheckAll

\* the owner's calls alone, from an empty lock directory
SpecLedger == Init /\ [][NextLedger]_vars

\* ------------------------------------------------------------------------
\* secret.rs: listing the paths of the index
\* ------------------------------------------------------------------------

\* list_secret_paths_recursive: the results it can give; the keys come in
\* the order the index map yields them
list_secret_paths_recursive(d, pattern, password) ==
    LET index_map == read_index_file(d, password)
    IN  IF ~index_map.ok
        THEN {[result |-> IncorrectPassword, list |-> <<>>]}
        ELSE {[result |-> Ok(""),
               list |-> SelectSeq(into_keys, LAMBDA key : starts_with(key, pattern))] :
                into_keys \in Orders(DOMAIN index_map.val)}

\* the prefixes list is called with
ListPatterns == {""} \cup Paths

List ==
    \E pattern \in ListPatterns, password \in Passwords :
        \E r \in list_secret_paths_recursive(Disk, pattern, password) :
            /\ UNCHANGED <<index_vlt, slot_files, index_crc>>
            /\ last' = [NoCall EXCEPT !.op = "list", !.path = pattern,
                                      !.password = password, !.after = "other",
                                      !.result = r.result, !.list = r.list]
            /\ UNCHANGED <<alloc_vars, crc_vars, pat_vars, fs_vars, more_vars, tui_vars>>

NextList == Set \/ Remove \/ List

SpecList == Init /\ [][NextList]_vars

\* ------------------------------------------------------------------------
\* A lock directory that already holds secrets
\* ------------------------------------------------------------------------

\* the index map as it is stored in index.vlt, whatever the password
Index == IF index_vlt.kind = "sealed" THEN from_str_json(index_vlt.data) ELSE EmptyMap

\* the slot id the stored index gives a path
SlotOf(path) == parse_u16(Index[path])

\* the lock directory holds the secrets of a map path -> slot id whose ids
\* are distinct and start at 1, as the allocation of engine.rs hands them out
\* (gaps are left by removals), each with contents "v" under the password
\* PwA and with its ledger entry
Provisioned ==
    /\ \E K \in SUBSET Paths, password \in {PwA} :
        \E f \in [K -> SlotIds \ {0}] :
            /\ \A p, q \in K : p # q => f[p] # f[q]
            /\ LET used == {f[p] : p \in K}
                   file == sealed(pad_password(password), as_bytes("v"), 0)
               IN  IF K = {}
                   THEN /\ index_vlt = NoFile
                        /\ slot_files = [s \in SlotIds |-> NoFile]
                        /\ index_crc = NoCrcFile
                   ELSE /\ index_vlt = sealed(pad_password(password),
                                       to_string_json([p \in K |-> to_string_u16(f[p])]), 0)
                        /\ slot_files = [s \in SlotIds |-> IF s \in used THEN file ELSE NoFile]
                        /\ index_crc = [exists |-> TRUE,
                                        map |-> [s \in used |-> checksum(file)]]
    /\ last = NoCall

InitProvisioned ==
    /\ Provisioned
    /\ AllocIdle
    /\ CrcIdle
    /\ PatIdle
    /\ FsIdle
    /\ MoreIdle

\* the owner's calls alone: nobody else writes to the lock directory
NextOwner == Get \/ Set \/ Remove

SpecProvisioned == InitProvisioned /\ [][NextOwner]_vars

\* ------------------------------------------------------------------------
\* secret.rs: set_secret and remove_secret statement by statement, with the
\* process stopped between any two statements
\* ------------------------------------------------------------------------

\* set_secret that writes the slot file before the index
set_order_file_first == <<"write_encrypted_file", "write_index_file", "update_crc">>

\* the statements of set_secret that write, in their order
set_order ==
    <<"write_index_file", "write_encrypted_file", "update_crc">>

\* remove_secret that deletes the slot file before it persists the index
remove_order_file_first == <<"remove_encrypted_file", "write_index_file", "update_crc">>

\* the statements of remove_secret that write, in their order
remove_order ==
    <<"write_index_file", "remove_encrypted_file", "update_crc">>

\* set_secret up to its first write: the index is read, the slot id taken
\* from it or reserved
StartSet ==
    \E secret_path \in Paths, contents \in Contents, password \in Passwords :
        LET index_map == read_index_file(Disk, password)
            known == secret_path \in DOMAIN index_map.val
            reserved == reserve_index(index_map.val, secret_path)
        IN  /\ run.op = "none"
            /\ index_map.ok
            /\ run' = [op |-> "set", path |-> secret_path, contents |-> contents,
                       password |-> password,
                       file_index |-> IF known THEN parse_u16(index_map.val[secret_path])
                                      ELSE reserved.new_index,
                       index_map |-> IF known THEN index_map.val ELSE reserved.index_map,
                       fresh |-> ~known,
                       todo |-> IF known
                                THEN SelectSeq(set_order,
                                               LAMBDA s : s # "write_index_file")
                                ELSE set_order,
                       did |-> {},
                       start |-> Disk]
            /\ UNCHANGED <<vault_vars, alloc_vars, crc_vars, pat_vars, fs_vars, scroll, eng, book, tui_vars>>

\* remove_secret up to its first write: the index is read and the path
\* taken out of the map in memory
StartRemove ==
    \E secret_path \in Paths, password \in Passwords :
        LET index_map == read_index_file(Disk, password)
        IN  /\ run.op = "none"
            /\ index_map.ok
            /\ secret_path \in DOMAIN index_map.val
            /\ run' = [op |-> "remove", path |-> secret_path, contents |-> "",
                       password |-> password,
                       file_index |-> parse_u16(index_map.val[secret_path]),
                       index_map |-> [k \in DOMAIN index_map.val \ {secret_path} |->
                                         index_map.val[k]],
                       fresh |-> FALSE,
                       todo |-> remove_order,
                       did |-> {},
                       start |-> Disk]
            /\ UNCHANGED <<vault_vars, alloc_vars, crc_vars, pat_vars, fs_vars, scroll, eng, book, tui_vars>>

\* what the next statement of the call in progress leaves on disk
Statement ==
    CASE Head(run.todo) = "write_index_file" ->
           write_index_file(Disk, run.index_map, run.password)
      [] Head(run.todo) = "write_encrypted_file" ->
           write_encrypted_file(Disk, run.file_index, run.contents, run.password)
      [] Head(run.todo) = "remove_encrypted_file" ->
           remove_encrypted_file(Disk, run.file_index)
      [] Head(run.todo) = "update_crc" ->
           [ok |-> TRUE, disk |-> update_crc(Disk, run.file_index)]

\* the call in progress runs its next statement; it returns when that
\* fails and after its last statement
Step ==
    /\ run.op \in {"set", "remove"}
    /\ Install(Statement.disk)
    /\ run' = IF ~Statement.ok \/ Len(run.todo) = 1 THEN NoRun
              ELSE [run EXCEPT !.todo = Tail(@), !.did = @ \cup {Head(run.todo)}]
    /\ UNCHANGED <<last, alloc_vars, crc_vars, pat_vars, fs_vars, scroll, eng, book, tui_vars>>

\* the process is stopped before the next statement of the call
Interrupt ==
    /\ run.op \in {"set", "remove"}
    /\ run' = NoRun
    /\ UNCHANGED <<vault_vars, alloc_vars, crc_vars, pat_vars, fs_vars, scroll, eng, book, tui_vars>>

InitSteps ==
    /\ index_vlt = NoFile
    /\ slot_files = [s \in SlotIds |-> NoFile]
    /\ index_crc = NoCrcFile
    /\ last = NoCall
    /\ run = NoRun
    /\ scroll = NoScroll
    /\ book = NoBook
    /\ TuiIdle
    /\ eng = NoEng
    /\ AllocIdle
    /\ CrcIdle
    /\ PatIdle
    /\ FsIdle

NextSteps == StartSet \/ StartRemove \/ Step \/ Interrupt

SpecSteps == InitSteps /\ [][NextSteps]_vars

\* ------------------------------------------------------------------------
\* secret.rs: the calls made on a path after a set_secret of that path was
\* stopped between its first write and update_crc
\* ------------------------------------------------------------------------

\* the process is stopped in a set_secret that has written (the index for
\* a new path, the slot file for a known one) and has not reached
\* update_crc; the call stays on record for the calls that follow
Stop ==
    /\ run.op = "set"
    /\ run.did # {}
    /\ run' = [run EXCEPT !.op = "stopped"]
    /\ UNCHANGED <<vault_vars, alloc_vars, crc_vars, pat_vars, fs_vars, scroll, eng, book, tui_vars>>

\* get_secret of the path of the stopped call, with its password
RecoverGet ==
    /\ run.op \in {"stopped", "recovered"}
    /\ UNCHANGED <<index_vlt, slot_files, index_crc>>
    /\ last' = Call("get", run.path, run.password, "",
                    get_secret(Disk, run.path, run.password))
    /\ UNCHANGED <<alloc_vars, crc_vars, pat_vars, fs_vars, more_vars, tui_vars>>

\* a whole set_secret of the path of the stopped call, with its password;
\* one that returns an error takes the path off the record
RecoverSet ==
    \E contents \in Contents :
        LET r == set_secret(Disk, run.path, contents, run.password)
        IN  /\ run.op = "stopped"
            /\ Install(r.disk)
            /\ last' = Call("set", run.path, run.password, contents, r.result)
            /\ run' = IF r.result.err = "None"
                      THEN [run EXCEPT !.op = "recovered", !.contents = contents]
                      ELSE NoRun
            /\ UNCHANGED <<alloc_vars, crc_vars, pat_vars, fs_vars, scroll, eng, book, tui_vars>>

\* the owner goes on to other calls
Resume ==
    /\ run.op \in {"stopped", "recovered"}
    /\ run' = NoRun
    /\ UNCHANGED <<vault_vars, alloc_vars, crc_vars, pat_vars, fs_vars, scroll, eng, book, tui_vars>>

NextRecover ==
    StartSet \/ StartRemove \/ Step \/ Stop \/ RecoverGet \/ RecoverSet \/ Resume

SpecRecover == InitSteps /\ [][NextRecover]_vars

\* the calls run statement by statement and stopped at any point, with
\* check_crc_all made between the calls
CheckAllIdle == run = NoRun /\ CheckAll

NextStepsLedger == StartSet \/ StartRemove \/ Step \/ Interrupt \/ CheckAllIdle

SpecStepsLedger == InitSteps /\ [][NextStepsLedger]_vars

\* ------------------------------------------------------------------------
\* utils.rs: get_minimum_available_value, used by engine.rs
\* ------------------------------------------------------------------------

Keys == {PathNames[i] : i \in 1..NumKeys}

\* format!("{:0>3}", n), the form the index values of tests.rs have
zero_pad3(n) ==
    LET digits == to_string_u16(n)
    IN  IF Len(digits) >= 3 THEN digits
        ELSE [i \in 1..3 |-> IF i <= 3 - Len(digits) THEN 0
                             ELSE digits[i - (3 - Len(digits))]]

\* the loop over the sorted values: count up from min_value while the next
\* value is the one expected, stop at the first value that is not
RECURSIVE scan_minimum(_, _)
scan_minimum(min_value, values) ==
    IF Len(values) = 0 THEN min_value
    ELSE IF min_value = Head(values) THEN scan_minimum(min_value + 1, Tail(values))
    ELSE min_value

\* get_minimum_available_value with the fold of secret.rs reserve_index
get_minimum_available_value_fold(map) ==
    fold_index(0, into_sorted(map_values(map)))

get_minimum_available_value(map) ==
    scan_minimum(1, into_sorted(map_values(map)))

\* the values of a map as numbers
Values(map) == {parse_u16(map[k]) : k \in DOMAIN map}

\* a map of distinct values >= 1, written as "N" or as "00N"
InitAlloc ==
    /\ \E K \in SUBSET Keys, padded \in BOOLEAN :
        \E f \in [K -> 1..MaxVal] :
            /\ \A p, q \in K : p # q => f[p] # f[q]
            /\ dict = [k \in K |-> IF padded THEN zero_pad3(f[k]) ELSE to_string_u16(f[k])]
    /\ alloc = NoAlloc
    /\ index_vlt = NoFile
    /\ slot_files = [s \in SlotIds |-> NoFile]
    /\ index_crc = NoCrcFile
    /\ last = NoCall
    /\ CrcIdle
    /\ PatIdle
    /\ FsIdle
    /\ MoreIdle

\* engine.rs set_secret, per matched file: take the key's value, or insert
\* the minimum available value for a key the map does not have
AllocSet ==
    \E index_key \in Keys :
        /\ IF index_key \in DOMAIN dict
           THEN /\ alloc' = [op |-> "set", key |-> index_key,
                             val |-> parse_u16(dict[index_key]), fresh |-> FALSE,
                             before |-> Values(dict)]
                /\ dict' = dict
           ELSE LET index_val == get_minimum_available_value(dict)
                IN  /\ alloc' = [op |-> "set", key |-> index_key, val |-> index_val,
                                 fresh |-> TRUE, before |-> Values(dict)]
                    /\ dict' = [k \in DOMAIN dict \cup {index_key} |->
                                  IF k = index_key THEN to_string_u16(index_val)
                                  ELSE dict[k]]
        /\ UNCHANGED <<vault_vars, crc_vars, pat_vars, fs_vars, more_vars, tui_vars>>

\* engine.rs remove_secret, per matched key: index_map.remove
AllocRemove ==
    \E index_key \in DOMAIN dict :
        /\ alloc' = [op |-> "remove", key |-> index_key,
                     val |-> parse_u16(dict[index_key]), fresh |-> FALSE,
                     before |-> Values(dict)]
        /\ dict' = [k \in DOMAIN dict \ {index_key} |-> dict[k]]
        /\ UNCHANGED <<vault_vars, crc_vars, pat_vars, fs_vars, more_vars, tui_vars>>

NextAlloc == AllocSet \/ AllocRemove

SpecAlloc == InitAlloc /\ [][NextAlloc]_vars

\* ------------------------------------------------------------------------
\* crc.rs: the ledger functions
\* ------------------------------------------------------------------------

\* compute_crc: fs::read of the file the path leads to and its CRC32
crc_compute_crc(c, path) ==
    LET file == c.dir[to_filename_str(path)]
    IN  IF file.kind = "absent"
        THEN [ok |-> FALSE, val |-> 0]
        ELSE [ok |-> TRUE, val |-> checksum(file)]

\* fs::read_dir: the names of the entries of the directory
read_dir(c) ==
    {n \in CrcFileNames : c.dir[n].kind # "absent"}
        \cup (IF c.ledger.exists THEN {"index.crc"} ELSE {})

\* compute_crc_all: file name -> CRC32 for every entry but index.crc
crc_compute_crc_all(c) ==
    [file_name \in {n \in read_dir(c) : n # "index.crc"} |-> checksum(c.dir[file_name])]

\* absent ledger file: empty map
crc_read_crc_file(c) == c.ledger.map

crc_write_crc_file(c, crc_map) ==
    [c EXCEPT !.ledger = [exists |-> TRUE, map |-> crc_map]]

\* check_crc that asks only for a stored entry, not for an equal one
crc_check_crc_stored(c, path) ==
    IF crc_compute_crc(c, path).ok /\ to_path_str(path) \in DOMAIN crc_read_crc_file(c)
    THEN CrcOk
    ELSE CrcMismatchError(to_filename_str(path))

crc_check_crc(c, path) ==
    LET stored_crc_all == crc_read_crc_file(c)
        computed_crc == crc_compute_crc(c, path)
    IN  IF computed_crc.ok
        THEN IF to_path_str(path) \in DOMAIN stored_crc_all
             THEN IF stored_crc_all[to_path_str(path)] = computed_crc.val
                  THEN CrcOk
                  ELSE CrcMismatchError(to_filename_str(path))
             ELSE CrcMismatchError(to_filename_str(path))
        ELSE CrcMismatchError(to_filename_str(path))

\* update_crc that leaves the entry of a file that no longer exists
crc_update_crc_keep(c, path) ==
    LET stored_crc == crc_read_crc_file(c)
        computed_crc == crc_compute_crc(c, path)
        key == to_path_str(path)
    IN  IF computed_crc.ok
        THEN crc_write_crc_file(c,
                [k \in DOMAIN stored_crc \cup {key} |->
                    IF k = key THEN computed_crc.val ELSE stored_crc[k]])
        ELSE crc_write_crc_file(c, stored_crc)

crc_update_crc(c, path) ==
    LET stored_crc == crc_read_crc_file(c)
        computed_crc == crc_compute_crc(c, path)
        key == to_path_str(path)
    IN  IF computed_crc.ok
        THEN crc_write_crc_file(c,
                [k \in DOMAIN stored_crc \cup {key} |->
                    IF k = key THEN computed_crc.val ELSE stored_crc[k]])
        ELSE crc_write_crc_file(c,
                [k \in DOMAIN stored_crc \ {key} |-> stored_crc[k]])

\* check_crc_all that reports untracked files only
crc_check_crc_all_added(c) ==
    LET stored_crc == crc_read_crc_file(c)
        computed_crc == crc_compute_crc_all(c)
        added_errors == {k \in DOMAIN computed_crc : k \notin DOMAIN stored_crc}
    IN  IF added_errors # {} THEN {CrcMismatchError(k) : k \in added_errors}
        ELSE {CrcOk}

\* check_crc_all: the results it can give; the first error of the chain
\* is the one the maps' iteration order puts first
crc_check_crc_all(c) ==
    LET stored_crc == crc_read_crc_file(c)
        computed_crc == crc_compute_crc_all(c)
        added_errors == {k \in DOMAIN computed_crc : k \notin DOMAIN stored_crc}
        diff_errors ==
            {k \in DOMAIN stored_crc :
                ~(k \in DOMAIN computed_crc /\ computed_crc[k] = stored_crc[k])}
    IN  IF added_errors # {} THEN {CrcMismatchError(k) : k \in added_errors}
        ELSE IF diff_errors # {} THEN {CrcMismatchError(k) : k \in diff_errors}
        ELSE {CrcOk}

\* update_crc_all that adds the computed entries to the stored ones
crc_update_crc_all_merge(c) ==
    LET stored_crc == crc_read_crc_file(c)
        computed_crc == crc_compute_crc_all(c)
    IN  crc_write_crc_file(c,
            [k \in DOMAIN stored_crc \cup DOMAIN computed_crc |->
                IF k \in DOMAIN computed_crc THEN computed_crc[k] ELSE stored_crc[k]])

crc_update_crc_all(c) ==
    LET computed_crc == crc_compute_crc_all(c)
    IN  crc_write_crc_file(c, computed_crc)

CrcInstall(c) ==
    /\ crc_dir' = c.dir
    /\ crc_ledger' = c.ledger

\* the files of the directory and the map file name -> CRC32 of their bytes
PresentFiles(c) == {n \in CrcFileNames : c.dir[n].kind # "absent"}

FreshMap(c) == [n \in PresentFiles(c) |-> checksum(c.dir[n])]

CrcCall(op, path, result) ==
    [op |-> op, path |-> path, result |-> result, after |-> "other", rewrites |-> <<>>]

\* what a write follows: "consistent" when the ledger was the fresh map of
\* the directory before the write
AfterWrite == IF crc_ledger.map = FreshMap(CrcDisk) THEN "consistent" ELSE "other"

\* the path of the update_crc made right before a write, when the write
\* puts other bytes into the file that update_crc recorded
Rewrites(file_name, bytes) ==
    IF /\ crc_last.op = "update"
       /\ to_filename_str(crc_last.path) = file_name
       /\ crc_dir[file_name].kind # "absent"
       /\ crc_dir[file_name] # bytes
    THEN crc_last.path
    ELSE <<>>

\* fs::write of a file of the directory
CrcWrite ==
    \E file_name \in CrcFileNames, bytes \in CrcBytes :
        /\ crc_dir' = [crc_dir EXCEPT ![file_name] = bytes]
        /\ crc_ledger' = crc_ledger
        /\ crc_last' = [CrcCall("write", <<file_name>>, CrcOk) EXCEPT
                            !.after = AfterWrite,
                            !.rewrites = Rewrites(file_name, bytes)]
        /\ UNCHANGED <<vault_vars, alloc_vars, pat_vars, fs_vars, more_vars, tui_vars>>

\* fs::remove_file of a file of the directory
CrcDelete ==
    \E file_name \in CrcFileNames :
        /\ crc_dir[file_name].kind # "absent"
        /\ crc_dir' = [crc_dir EXCEPT ![file_name] = NoFile]
        /\ crc_ledger' = crc_ledger
        /\ crc_last' = CrcCall("delete", <<file_name>>, CrcOk)
        /\ UNCHANGED <<vault_vars, alloc_vars, pat_vars, fs_vars, more_vars, tui_vars>>

CrcCheck ==
    \E path \in CrcPaths :
        /\ UNCHANGED <<crc_dir, crc_ledger>>
        /\ crc_last' = [CrcCall("check", path, crc_check_crc(CrcDisk, path)) EXCEPT
                            !.after = IF crc_last.op = "write" /\ crc_last.rewrites = path
                                      THEN "rewrite" ELSE "other"]
        /\ UNCHANGED <<vault_vars, alloc_vars, pat_vars, fs_vars, more_vars, tui_vars>>

CrcUpdate ==
    \E path \in CrcPaths :
        /\ CrcInstall(crc_update_crc(CrcDisk, path))
        /\ crc_last' = CrcCall("update", path, CrcOk)
        /\ UNCHANGED <<vault_vars, alloc_vars, pat_vars, fs_vars, more_vars, tui_vars>>

CrcCheckAll ==
    \E result \in crc_check_crc_all(CrcDisk) :
        /\ UNCHANGED <<crc_dir, crc_ledger>>
        /\ crc_last' = [CrcCall("check_all", <<>>, result) EXCEPT
                            !.after = IF crc_last.op = "update_all"
                                      THEN "update_all" ELSE "other"]
        /\ UNCHANGED <<vault_vars, alloc_vars, pat_vars, fs_vars, more_vars, tui_vars>>

CrcUpdateAll ==
    /\ CrcInstall(crc_update_crc_all(CrcDisk))
    /\ crc_last' = CrcCall("update_all", <<>>, CrcOk)
    /\ UNCHANGED <<vault_vars, alloc_vars, pat_vars, fs_vars, more_vars, tui_vars>>

InitCrc ==
    /\ CrcIdle
    /\ PatIdle
    /\ FsIdle
    /\ MoreIdle
    /\ index_vlt = NoFile
    /\ slot_files = [s \in SlotIds |-> NoFile]
    /\ index_crc = NoCrcFile
    /\ last = NoCall
    /\ AllocIdle

NextCrc ==
    CrcWrite \/ CrcDelete \/ CrcCheck \/ CrcUpdate \/ CrcCheckAll \/ CrcUpdateAll

SpecCrc == InitCrc /\ [][NextCrc]_vars

\* ------------------------------------------------------------------------
\* The matcher applied to the keys of an index map
\* ------------------------------------------------------------------------

FilterPattern ==
    \E value \in PatArgs, items \in Orders(pat_keys) :
        /\ pat_last' = [op |-> "filter_pattern", arg |-> value,
                        out |-> filter_pattern(items, from_str(value))]
        /\ UNCHANGED pat_keys
        /\ UNCHANGED <<vault_vars, alloc_vars, crc_vars, fs_vars, more_vars, tui_vars>>

GetMatchingKeys ==
    \E pat \in PatArgs :
        /\ pat_last' = [op |-> "get_matching_keys", arg |-> pat,
                        out |-> get_matching_keys([k \in pat_keys |-> "001"], pat)]
        /\ UNCHANGED pat_keys
        /\ UNCHANGED <<vault_vars, alloc_vars, crc_vars, fs_vars, more_vars, tui_vars>>

ExploreContents ==
    \E prefix \in PatArgs :
        /\ pat_last' = [op |-> "explore_contents", arg |-> prefix,
                        out |-> explore_contents(pat_keys, prefix)]
        /\ UNCHANGED pat_keys
        /\ UNCHANGED <<vault_vars, alloc_vars, crc_vars, fs_vars, more_vars, tui_vars>>

InitPattern ==
    /\ pat_keys \in KeySets
    /\ pat_last = NoPatCall
    /\ CrcIdle
    /\ FsIdle
    /\ MoreIdle
    /\ index_vlt = NoFile
    /\ slot_files = [s \in SlotIds |-> NoFile]
    /\ index_crc = NoCrcFile
    /\ last = NoCall
    /\ AllocIdle

NextPattern == FilterPattern \/ GetMatchingKeys \/ ExploreContents

SpecPattern == InitPattern /\ [][NextPattern]_vars

\* ------------------------------------------------------------------------
\* pattern.rs: the files of a working directory
\* ------------------------------------------------------------------------

\* the system cache files the listing skips
IGNORE == {".DS_Store"}

\* the files and the directories that may exist under the working
\* directory, by their path relative to it; "" is the working directory
TreeFiles == {"f1", "subs", ".DS_Store", "sub/f3", "sub/.DS_Store"}

TreeDirs == {"", "sub", "sub/d"}

\* Path::parent of a relative path
parent_dir(path) ==
    IF match_indices(path) = {} THEN ""
    ELSE SubSeq(path, 1, Nth(match_indices(path), matches_count(path)) - 1)

\* PathExt::to_filename_str of a relative path
file_name(path) ==
    IF match_indices(path) = {} THEN path
    ELSE SubSeq(path, Nth(match_indices(path), matches_count(path)) + 1, Len(path))

\* the trees a file system can hold: every entry lies in a directory
Trees ==
    {tree \in [files : SUBSET TreeFiles, dirs : SUBSET TreeDirs] :
        /\ \A p \in tree.files : parent_dir(p) \in tree.dirs
        /\ \A p \in tree.dirs : p = "" \/ parent_dir(p) \in tree.dirs}

\* the pattern strings given to Pattern::from_str
FilePatterns ==
    {"f1", "f*", "*", "**", "s*", "s**", "sub*", "sub**", "sub/*", "sub/**",
     "sub/f*", "sub", "sub/f3", "sub/d/*", ".DS_Store", "nodir/*"}

\* working_dir.join(prefix) without the trailing separator
joined(prefix) ==
    IF ends_with(prefix, "/") THEN strip_suffix(prefix, "/") ELSE prefix

\* fs::read_dir: the entries of a directory, when it is one
fs_read_dir(tree, dir) ==
    {p \in (tree.files \cup tree.dirs) \ {"", dir} : parent_dir(p) = dir}

\* the closure filter_fn of get_similar_file_matches
filter_fn(tree, prefix, path) ==
    starts_with(path, prefix) \/ (path \in tree.dirs /\ starts_with(prefix, path))

\* list_files: the vectors it can return, one for each order in which
\* fs::read_dir yields the entries
list_files(tree, dir, prefix) ==
    IF dir \notin tree.dirs THEN {<<>>}
    ELSE Orders({p \in fs_read_dir(tree, dir) :
                    /\ filter_fn(tree, prefix, p)
                    /\ p \in tree.files
                    /\ file_name(p) \notin IGNORE})

RECURSIVE walk_dir(_, _, _)
RECURSIVE walk_fold(_, _, _, _)

\* walk_dir: the vectors it can return, one for each order in which
\* fs::read_dir yields the entries of each directory
walk_dir(tree, dir, prefix) ==
    IF dir \notin tree.dirs THEN {<<>>}
    ELSE UNION {walk_fold(tree, order, prefix, 1) :
                    order \in Orders(fs_read_dir(tree, dir))}

\* the fold of walk_dir from the i-th entry on
walk_fold(tree, order, prefix, i) ==
    IF i > Len(order) THEN {<<>>}
    ELSE LET entry_path == order[i]
             found ==
                 IF ~filter_fn(tree, prefix, entry_path) THEN {<<>>}
                 ELSE IF entry_path \in tree.dirs
                 THEN walk_dir(tree, entry_path, prefix)
                 ELSE IF file_name(entry_path) \in IGNORE THEN {<<>>}
                 ELSE {<<entry_path>>}
         IN  {head \o tail : head \in found,
                             tail \in walk_fold(tree, order, prefix, i + 1)}

\* Pattern::get_exact_file_match
get_exact_file_match(tree, pattern) ==
    IF pattern.value \in tree.files THEN {<<pattern.value>>} ELSE {<<>>}

\* Pattern::get_similar_file_matches
get_similar_file_matches(tree, pattern) ==
    LET prefix == pattern.value
        full_path == joined(prefix)
        path_parent ==
            IF full_path \in tree.dirs THEN full_path
            ELSE IF full_path = "" THEN ".."
            ELSE parent_dir(full_path)
    IN  IF pattern.kind = "Recursive"
        THEN walk_dir(tree, path_parent, prefix)
        ELSE list_files(tree, path_parent, prefix)

\* Pattern::match_files: the vectors it can return
match_files(tree, pattern) ==
    IF pattern.kind = "Exact"
    THEN get_exact_file_match(tree, pattern)
    ELSE get_similar_file_matches(tree, pattern)

RECURSIVE remove_empty_dirs(_, _)
RECURSIVE remove_fold(_, _)

\* the fold of remove_empty_dirs over the entries not yet visited
remove_fold(tree, entries) ==
    IF entries = {} THEN [tree |-> tree, is_empty |-> TRUE]
    ELSE LET entry_path == CHOOSE p \in entries : TRUE
             visited ==
                 IF entry_path \in tree.dirs
                 THEN remove_empty_dirs(tree, entry_path)
                 ELSE IF file_name(entry_path) \in IGNORE
                 THEN [tree |-> [tree EXCEPT !.files = @ \ {entry_path}],
                       is_empty |-> TRUE]
                 ELSE [tree |-> tree, is_empty |-> FALSE]
             rest == remove_fold(visited.tree, entries \ {entry_path})
         IN  [tree |-> rest.tree, is_empty |-> visited.is_empty /\ rest.is_empty]

\* remove_empty_dirs: the tree it leaves and whether dir was removed
remove_empty_dirs(tree, dir) ==
    IF dir \notin tree.dirs THEN [tree |-> tree, is_empty |-> TRUE]
    ELSE LET folded == remove_fold(tree, fs_read_dir(tree, dir))
         IN  IF fs_read_dir(folded.tree, dir) = {}
             THEN [tree |-> [folded.tree EXCEPT !.dirs = @ \ {dir}],
                   is_empty |-> folded.is_empty]
             ELSE folded

\* Pattern::remove_files: the trees it can leave with the vector returned
remove_files(tree, pattern) ==
    {[tree |-> remove_empty_dirs([tree EXCEPT !.files = @ \ Range(matches)], "").tree,
      out |-> matches] : matches \in match_files(tree, pattern)}

FsCall(op, pattern, out) ==
    [op |-> op, pattern |-> pattern, out |-> out, before |-> fs_tree]

MatchFiles ==
    \E value \in FilePatterns :
        \E matches \in match_files(fs_tree, from_str(value)) :
            /\ fs_last' = FsCall("match_files", value, matches)
            /\ UNCHANGED fs_tree
            /\ UNCHANGED <<vault_vars, alloc_vars, crc_vars, pat_vars, more_vars, tui_vars>>

RemoveFiles ==
    \E value \in FilePatterns :
        \E removed \in remove_files(fs_tree, from_str(value)) :
            /\ fs_tree' = removed.tree
            /\ fs_last' = FsCall("remove_files", value, removed.out)
            /\ UNCHANGED <<vault_vars, alloc_vars, crc_vars, pat_vars, more_vars, tui_vars>>

InitFiles ==
    /\ fs_tree \in Trees
    /\ fs_last = NoFsCall
    /\ index_vlt = NoFile
    /\ slot_files = [s \in SlotIds |-> NoFile]
    /\ index_crc = NoCrcFile
    /\ last = NoCall
    /\ AllocIdle
    /\ CrcIdle
    /\ PatIdle
    /\ MoreIdle

NextFiles == MatchFiles \/ RemoveFiles

SpecFiles == InitFiles /\ [][NextFiles]_vars

\* ------------------------------------------------------------------------
\* clear_secret_files: remove_files on the unlock directory, next to the
\* lock directory
\* ------------------------------------------------------------------------

\* the lock directory as the unlock directory reaches it
LOCK_DIR_REL == "../vault-lock"

\* the files of the lock directory, by their path from the unlock directory
LockFiles(d) ==
    {LOCK_DIR_REL \o "/index.vlt" : x \in {0} \cap (IF d.index_vlt.kind # "absent" THEN {0} ELSE {})}
        \cup {LOCK_DIR_REL \o "/index.crc" : x \in {0} \cap (IF d.index_crc.exists THEN {0} ELSE {})}
        \cup {LOCK_DIR_REL \o "/" \o slot_file_name(slot) :
                slot \in {x \in SlotIds : d.slot_files[x].kind # "absent"}}

\* the unlock directory and what its paths reach outside of it: the lock
\* directory, when the unlock directory exists
Reachable(tree, d) ==
    IF "" \in tree.dirs
    THEN [files |-> tree.files \cup LockFiles(d), dirs |-> tree.dirs \cup {LOCK_DIR_REL}]
    ELSE tree

\* the pattern strings given to clear_secret_files
ClearPatterns ==
    {"f1", "**", "../vault-lock/index.vlt", "../vault-lock/*", "../vault-lock/**"}

\* the unlock directories the calls are made on
ClearTrees ==
    {tree \in Trees : tree.files \in {{}, {"f1", "sub/f3"}} /\ "sub/d" \notin tree.dirs}

\* clear_secret_files(pattern): the trees and vectors remove_files can
\* give on the unlock directory
clear_secret_files(tree, d, value) ==
    remove_files(Reachable(tree, d), from_str(value))

ClearFiles ==
    \E value \in ClearPatterns :
        \E removed \in clear_secret_files(fs_tree, Disk, value) :
            /\ fs_tree' = [files |-> removed.tree.files \cap TreeFiles,
                           dirs |-> removed.tree.dirs \cap TreeDirs]
            /\ index_vlt' =
                   IF LOCK_DIR_REL \o "/index.vlt" \in Range(removed.out)
                   THEN NoFile ELSE index_vlt
            /\ index_crc' =
                   IF LOCK_DIR_REL \o "/index.crc" \in Range(removed.out)
                   THEN NoCrcFile ELSE index_crc
            /\ slot_files' =
                   [slot \in SlotIds |->
                       IF LOCK_DIR_REL \o "/" \o slot_file_name(slot) \in Range(removed.out)
                       THEN NoFile ELSE slot_files[slot]]
            /\ fs_last' = FsCall("clear_secret_files", value, removed.out)
            /\ UNCHANGED <<last, alloc_vars, crc_vars, pat_vars, more_vars, tui_vars>>

\* an unlock directory next to a lock directory that holds secrets
InitClear ==
    /\ fs_tree \in ClearTrees
    /\ fs_last = NoFsCall
    /\ Provisioned
    /\ AllocIdle
    /\ CrcIdle
    /\ PatIdle
    /\ MoreIdle

NextClear == Get \/ ClearFiles

SpecClear == InitClear /\ [][NextClear]_vars

\* ------------------------------------------------------------------------
\* engine.rs: bulk export and import between the lock directory and the
\* unlock directory
\* ------------------------------------------------------------------------

\* the passwords of the bulk calls
EngPasswords == {PwA, PwC}

\* the index keys of the bulk calls: the unlock files x and y
EngKeys == {"x", "y"}

\* the pattern strings of the bulk calls
EngPatterns == {"**", "*"} \cup EngKeys

\* the files the unlock directory can hold when the calls start, an empty
\* file among them
EngUnlocks ==
    UNION {[K -> {"v", ""}] : K \in SUBSET EngKeys}

\* the names of the files of the lock directory
EngNames == {"index.vlt"} \cup {slot_file_name(s) : s \in SlotIds}

\* the bytes of a file of the lock directory
eng_file(e, name) ==
    IF name = "index.vlt" THEN e.index
    ELSE e.slots[CHOOSE s \in SlotIds : slot_file_name(s) = name]

\* compute_all: the checksum of every file of the lock directory
eng_compute_crc_all(e) ==
    [name \in {n \in EngNames : eng_file(e, n).kind # "absent"} |->
        checksum(eng_file(e, name))]

\* crc::check_crc(): every file of the lock directory has its checksum in
\* the ledger
eng_check_crc(e) ==
    \A name \in DOMAIN eng_compute_crc_all(e) :
        name \in DOMAIN e.crc /\ e.crc[name] = eng_compute_crc_all(e)[name]

\* crc::update_crc(): the ledger is computed anew
eng_update_crc(e) == [e EXCEPT !.crc = eng_compute_crc_all(e)]

\* crypto::decrypt_kv of index.vlt; no file gives the empty map
eng_decrypt_kv(e, password) ==
    IF e.index.kind = "absent" THEN [ok |-> TRUE, val |-> EmptyMap]
    ELSE LET raw == decrypt(e.index, password)
         IN  IF raw.ok /\ raw.val.is_json
             THEN [ok |-> TRUE, val |-> from_str_json(raw.val)]
             ELSE [ok |-> FALSE, val |-> EmptyMap]

\* the bytes aead::seal gives for a file of the lock directory: bytes the
\* file and the ledger have not seen
eng_seal(e, name, data, password) ==
    LET known(bytes) ==
            \/ bytes = eng_file(e, name)
            \/ name \in DOMAIN e.crc /\ checksum(bytes) = e.crc[name]
    IN  encrypt(data, password,
                {n \in Nonces : known(sealed(pad_password(password), data, n))})

\* crypto::encrypt_kv of the index map into index.vlt
eng_encrypt_kv(e, index_map, password) ==
    LET contents_enc == eng_seal(e, "index.vlt", to_string_json(index_map), password)
    IN  IF contents_enc.ok
        THEN [ok |-> TRUE, disk |-> [e EXCEPT !.index = contents_enc.val]]
        ELSE [ok |-> FALSE, disk |-> e]

\* fs::write of an unlock file
eng_write_unlock(unlock, key, contents) ==
    [k \in DOMAIN unlock \cup {key} |-> IF k = key THEN contents ELSE unlock[k]]

\* the loop of get_secret over the matching keys still to come
RECURSIVE eng_get_loop(_, _, _, _, _)
eng_get_loop(e, index_map, keys, password, done) ==
    IF keys = <<>> THEN [disk |-> e, result |-> Ok(""), done |-> done]
    ELSE LET index_key == Head(keys)
             index_val == parse_u16(index_map[index_key])
             lock_file ==
                 IF index_val \in SlotIds THEN e.slots[index_val] ELSE NoFile
             contents_raw == decrypt(lock_file, password)
         IN  IF lock_file.kind = "absent"
             THEN [disk |-> e, result |-> Panic, done |-> done]
             ELSE IF ~contents_raw.ok
             THEN [disk |-> e, result |-> IncorrectPassword, done |-> done]
             ELSE eng_get_loop(
                      [e EXCEPT !.unlock =
                          eng_write_unlock(@, index_key, contents_raw.val.str)],
                      index_map, Tail(keys), password,
                      Append(done, [key |-> index_key,
                                    contents |-> contents_raw.val.str]))

\* engine.rs get_secret
eng_get_secret(e, secret_path, password) ==
    IF ~eng_check_crc(e)
    THEN [disk |-> e, result |-> CrcMismatch(0), done |-> <<>>]
    ELSE LET index_map == eng_decrypt_kv(e, password)
         IN  IF ~index_map.ok
             THEN [disk |-> e, result |-> IncorrectPassword, done |-> <<>>]
             ELSE eng_get_loop(e, index_map.val,
                               get_matching_keys(index_map.val, secret_path),
                               password, <<>>)

\* utils.rs get_matching_files on an unlock directory without
\* subdirectories: the vectors it can return, by index key
get_matching_files(unlock, path) ==
    IF ends_with(path, "**")
    THEN Orders({k \in DOMAIN unlock : starts_with(k, strip_suffix(path, "**"))})
    ELSE IF ends_with(path, "*")
    THEN Orders({k \in DOMAIN unlock : starts_with(k, strip_suffix(path, "*"))})
    ELSE IF path \in DOMAIN unlock THEN {<<path>>} ELSE {<<>>}

\* the loop of set_secret over the unlock files still to come
RECURSIVE eng_set_loop(_, _, _, _, _)
eng_set_loop(e, index_map, unlock_files, password, done) ==
    IF unlock_files = <<>>
    THEN [disk |-> e, index_map |-> index_map, result |-> Ok(""), done |-> done]
    ELSE LET index_key == Head(unlock_files)
             index_val ==
                 IF index_key \in DOMAIN index_map
                 THEN parse_u16(index_map[index_key])
                 ELSE get_minimum_available_value(index_map)
             inserted ==
                 [k \in DOMAIN index_map \cup {index_key} |->
                     IF k \in DOMAIN index_map THEN index_map[k]
                     ELSE to_string_u16(index_val)]
             contents_enc ==
                 eng_seal(e, slot_file_name(index_val),
                          as_bytes(e.unlock[index_key]), password)
         IN  IF ~contents_enc.ok
             THEN [disk |-> e, index_map |-> inserted,
                   result |-> IncorrectPassword, done |-> done]
             ELSE eng_set_loop([e EXCEPT !.slots[index_val] = contents_enc.val],
                               inserted, Tail(unlock_files), password,
                               Append(done, [key |-> index_key,
                                             contents |-> e.unlock[index_key]]))

\* utils.rs remove_matching_files on the unlock directory
remove_matching_files(unlock, path) ==
    LET matched ==
            IF ends_with(path, "**")
            THEN {k \in DOMAIN unlock : starts_with(k, strip_suffix(path, "**"))}
            ELSE IF ends_with(path, "*")
            THEN {k \in DOMAIN unlock : starts_with(k, strip_suffix(path, "*"))}
            ELSE {path} \cap DOMAIN unlock
    IN  [k \in DOMAIN unlock \ matched |-> unlock[k]]

\* engine.rs set_secret from the loop on
eng_set_files(e, index_map, unlock_files, secret_path, password) ==
    LET looped == eng_set_loop(e, index_map, unlock_files, password, <<>>)
        written == eng_encrypt_kv(looped.disk, looped.index_map, password)
    IN  IF looped.result.err # "None"
        THEN [disk |-> looped.disk, result |-> looped.result, done |-> looped.done]
        ELSE IF ~written.ok
        THEN [disk |-> looped.disk, result |-> Panic, done |-> looped.done]
        ELSE [disk |-> eng_update_crc(
                          [written.disk EXCEPT !.unlock =
                              remove_matching_files(@, secret_path)]),
              result |-> Ok(""), done |-> looped.done]

\* engine.rs set_secret: what it can leave and return
eng_set_secret(e, secret_path, password) ==
    IF ~eng_check_crc(e)
    THEN {[disk |-> e, result |-> CrcMismatch(0), done |-> <<>>]}
    ELSE LET index_map == eng_decrypt_kv(e, password)
         IN  IF ~index_map.ok
             THEN {[disk |-> e, result |-> IncorrectPassword, done |-> <<>>]}
             ELSE {eng_set_files(e, index_map.val, unlock_files, secret_path, password) :
                      unlock_files \in get_matching_files(e.unlock, secret_path)}

EngCall(op, secret_path, password, r) ==
    [r.disk EXCEPT !.last = [op |-> op, pattern |-> secret_path, password |-> password,
                             result |-> r.result, done |-> r.done]]

EngGet ==
    \E secret_path \in EngPatterns, password \in EngPasswords :
        /\ eng' = EngCall("get_secret", secret_path, password,
                          eng_get_secret(eng, secret_path, password))
        /\ UNCHANGED <<vault_vars, alloc_vars, crc_vars, pat_vars, fs_vars, run, scroll, book, tui_vars>>

EngSet ==
    \E secret_path \in EngPatterns, password \in EngPasswords :
        \E r \in eng_set_secret(eng, secret_path, password) :
            /\ eng' = EngCall("set_secret", secret_path, password, r)
            /\ UNCHANGED <<vault_vars, alloc_vars, crc_vars, pat_vars, fs_vars, run, scroll, book, tui_vars>>

\* somebody else overwrites a slot file with other bytes and leaves the
\* ledger alone
EngTamper ==
    \E s \in SlotIds :
        /\ eng.slots[s].kind = "sealed"
        /\ eng' = [eng EXCEPT !.slots[s] = [NoFile EXCEPT !.kind = "raw"],
                              !.last = [NoEngCall EXCEPT !.op = "tamper"]]
        /\ UNCHANGED <<vault_vars, alloc_vars, crc_vars, pat_vars, fs_vars, run, scroll, book, tui_vars>>

\* an empty lock directory and an unlock directory that holds files
InitEngine ==
    /\ \E unlock \in EngUnlocks : eng = [NoEng EXCEPT !.unlock = unlock]
    /\ run = NoRun
    /\ scroll = NoScroll
    /\ book = NoBook
    /\ TuiIdle
    /\ index_vlt = NoFile
    /\ slot_files = [s \in SlotIds |-> NoFile]
    /\ index_crc = NoCrcFile
    /\ last = NoCall
    /\ AllocIdle
    /\ CrcIdle
    /\ PatIdle
    /\ FsIdle

NextEngine == EngGet \/ EngSet \/ EngTamper

SpecEngine == InitEngine /\ [][NextEngine]_vars

\* ------------------------------------------------------------------------
\* algo.rs: the scroll bar of a list in a viewport
\* ------------------------------------------------------------------------

\* the arguments of the calls: small ones, and those of a list of a
\* thousand items in a viewport of fifty lines
ScrollArgs == 0..MaxScroll \cup {50, 950, 1000}

ScrollPanic == [panic |-> TRUE, scroll_size |-> 0, scroll_pos |-> 0]

\* calculate_scroll_state: what the call can give; where the u16
\* arithmetic overflows, a build with overflow checks panics and a build
\* without them goes on with the wrapped value
calculate_scroll_state(i, view, total) ==
    IF total > view
    THEN LET square == view * view
             scroll_size == IF (square % U16) \div total > 1
                            THEN (square % U16) \div total ELSE 1
             view_max == total - view
             rest == view - scroll_size
             numerator == i * ((rest + U16) % U16)
             twice == 2 * (numerator % U16)
             dividend == (twice % U16) + view_max
             divisor == 2 * view_max
             overflows ==
                 \/ square >= U16
                 \/ rest < 0
                 \/ numerator >= U16
                 \/ twice >= U16
                 \/ dividend >= U16
                 \/ divisor >= U16
             wrapped ==
                 IF divisor % U16 = 0 THEN ScrollPanic
                 ELSE [panic |-> FALSE, scroll_size |-> scroll_size,
                       scroll_pos |-> (dividend % U16) \div (divisor % U16)]
         IN  IF overflows THEN {ScrollPanic, wrapped} ELSE {wrapped}
    ELSE {[panic |-> FALSE, scroll_size |-> 0, scroll_pos |-> 0]}

Calculate ==
    \E i \in ScrollArgs, view \in ScrollArgs, total \in ScrollArgs :
        \E out \in calculate_scroll_state(i, view, total) :
            /\ scroll' = [op |-> "calculate_scroll_state", i |-> i, view |-> view,
                          total |-> total, out |-> out]
            /\ UNCHANGED <<vault_vars, alloc_vars, crc_vars, pat_vars, fs_vars, run, eng, book, tui_vars>>

InitScroll ==
    /\ scroll = NoScroll
    /\ book = NoBook
    /\ TuiIdle
    /\ run = NoRun
    /\ eng = NoEng
    /\ index_vlt = NoFile
    /\ slot_files = [s \in SlotIds |-> NoFile]
    /\ index_crc = NoCrcFile
    /\ last = NoCall
    /\ AllocIdle
    /\ CrcIdle
    /\ PatIdle
    /\ FsIdle

NextScroll == Calculate

SpecScroll == InitScroll /\ [][NextScroll]_vars

\* ------------------------------------------------------------------------
\* widget.rs: the selection and the viewport of a ListWidget
\* ------------------------------------------------------------------------

\* size.0 of the widgets: the rows of the window, borders and title
\* included
WidgetSizes == {3, 4, 5, 6, 7}

\* list.len() of the lists shown, and two lists too long for a u16
ListLens == 0..MaxList \cup {U16, U16 + 1}

\* selected_index and viewport_index handed to the builder
IndexArgs == 0..(MaxList + 1) \cup {U16 - 1}

\* the mark of an arithmetic operation that panicked
Overflow == 0 - 1

\* a - b in u16: where it underflows, a build with overflow checks panics
\* and a build without them goes on with the wrapped value
Sub16(a, b) ==
    IF a = Overflow \/ b = Overflow THEN {Overflow}
    ELSE IF a >= b THEN {a - b}
    ELSE {Overflow, a - b + U16}

\* a + b in u16
Add16(a, b) ==
    IF a = Overflow \/ b = Overflow THEN {Overflow}
    ELSE IF a + b < U16 THEN {a + b}
    ELSE {Overflow, a + b - U16}

saturating_sub(a, b) == IF a > b THEN a - b ELSE 0

\* self.list.len() as u16
total_rows_of(w) == w.len % U16

clamp_selected_index(w, index) ==
    LET total_rows == total_rows_of(w)
        last_row == saturating_sub(total_rows, 1)
    IN  IF index < last_row THEN index ELSE last_row

\* clamp_viewport_index that never pulls the viewport down to the selection
clamp_viewport_index_up(w, index) ==
    LET total_rows == total_rows_of(w)
        view_max == w.selected_index
    IN  {IF view_rows = Overflow \/ below = Overflow THEN Overflow
         ELSE LET view_max_abs == saturating_sub(total_rows, view_rows)
                  low == IF index < view_max THEN index ELSE view_max
              IN  IF low < view_max_abs THEN low ELSE view_max_abs :
            <<view_rows, below>> \in
                UNION {{<<v, b>> : b \in Sub16(v, 1)} : v \in Sub16(w.size_rows, 4)}}

\* clamp_viewport_index: the values it can return, Overflow for a panic
clamp_viewport_index(w, index) ==
    LET total_rows == total_rows_of(w)
        view_max == w.selected_index
    IN  {IF view_rows = Overflow \/ below = Overflow THEN Overflow
         ELSE LET view_min == saturating_sub(w.selected_index, below)
                  view_max_abs == saturating_sub(total_rows, view_rows)
                  low == IF index < view_max THEN index ELSE view_max
                  lower == IF low < view_max_abs THEN low ELSE view_max_abs
              IN  IF lower > view_min THEN lower ELSE view_min :
            <<view_rows, below>> \in
                UNION {{<<v, b>> : b \in Sub16(v, 1)} : v \in Sub16(w.size_rows, 4)}}

\* the widget after a panic: the call never returns
Panicked(w) == [w EXCEPT !.panic = TRUE]

\* sanitize: the widgets it can leave
sanitize(w) ==
    LET selected == [w EXCEPT !.selected_index = clamp_selected_index(w, w.selected_index)]
    IN  {IF viewport_index = Overflow THEN Panicked(selected)
         ELSE [selected EXCEPT !.viewport_index = viewport_index] :
            viewport_index \in clamp_viewport_index(selected, selected.viewport_index)}

\* set_selected_index: the widgets it can leave; view_rows is computed
\* before anything is assigned
set_selected_index(w, index) ==
    IF index = Overflow THEN {Panicked(w)}
    ELSE UNION {IF view_rows = Overflow THEN {Panicked(w)}
                ELSE sanitize([w EXCEPT !.selected_index = index]) :
                   view_rows \in Sub16(w.size_rows, 4)}

\* set_list: the widgets it can leave
set_list(w, len) ==
    {IF view_rows = Overflow THEN Panicked(w)
     ELSE [w EXCEPT !.selected_index = 0, !.viewport_index = 0, !.len = len] :
        view_rows \in Sub16(w.size_rows, 4)}

\* ListWidgetBuilder::build
Build ==
    \E size_rows \in WidgetSizes, len \in ListLens,
       selected_index \in IndexArgs, viewport_index \in IndexArgs :
        /\ widget' \in sanitize([built |-> TRUE, panic |-> FALSE, size_rows |-> size_rows,
                                 len |-> len, selected_index |-> selected_index,
                                 viewport_index |-> viewport_index])
        /\ UNCHANGED <<vault_vars, alloc_vars, crc_vars, pat_vars, fs_vars, more_vars, tui, sync>>

SetList ==
    \E len \in ListLens :
        /\ widget.built /\ ~widget.panic
        /\ widget' \in set_list(widget, len)
        /\ UNCHANGED <<vault_vars, alloc_vars, crc_vars, pat_vars, fs_vars, more_vars, tui, sync>>

SelectPrev ==
    /\ widget.built /\ ~widget.panic
    /\ widget' \in set_selected_index(widget, saturating_sub(widget.selected_index, 1))
    /\ UNCHANGED <<vault_vars, alloc_vars, crc_vars, pat_vars, fs_vars, more_vars, tui, sync>>

SelectNext ==
    /\ widget.built /\ ~widget.panic
    /\ \E index \in Add16(widget.selected_index, 1) :
           widget' \in set_selected_index(widget, index)
    /\ UNCHANGED <<vault_vars, alloc_vars, crc_vars, pat_vars, fs_vars, more_vars, tui, sync>>

InitWidget ==
    /\ widget = NoWidget
    /\ tui = NoTui
    /\ sync = NoSync
    /\ index_vlt = NoFile
    /\ slot_files = [s \in SlotIds |-> NoFile]
    /\ index_crc = NoCrcFile
    /\ last = NoCall
    /\ run = NoRun
    /\ scroll = NoScroll
    /\ eng = NoEng
    /\ book = NoBook
    /\ AllocIdle
    /\ CrcIdle
    /\ PatIdle
    /\ FsIdle

NextWidget == Build \/ SetList \/ SelectPrev \/ SelectNext

SpecWidget == InitWidget /\ [][NextWidget]_vars

\* ------------------------------------------------------------------------
\* interactive.rs: the List page and the keys that move its selection
\* ------------------------------------------------------------------------

\* TermConfig::get_rows() of the terminals
TermRows == {5, 6, 7, 8}

\* a List page as ListPageParams::new() and the first render leave it
ListPage(term_rows, len) ==
    [page |-> "List", panic |-> FALSE, term_rows |-> term_rows, len |-> len,
     selected_index |-> 0, viewport_index |-> 0]

\* u16::saturating_add
saturating_add(a, b) == IF a + b < U16 THEN a + b ELSE U16 - 1

\* true as u16 is 1, false as u16 is 0
as_u16(bool) == IF bool THEN 1 ELSE 0

\* the page the call leaves, or the page marked as panicked
Moved(p, selected_index, viewport_index) ==
    IF selected_index = Overflow \/ viewport_index = Overflow THEN [p EXCEPT !.panic = TRUE]
    ELSE [p EXCEPT !.selected_index = selected_index, !.viewport_index = viewport_index]

\* move_active_selection: the pages it can leave
move_active_selection(p, rows) ==
    UNION {UNION {
        {Moved(p, selected_index, viewport_index) :
            viewport_index \in
                UNION {UNION {UNION {
                    Sub16(raised, as_u16(selected_index < p.viewport_index)) :
                       raised \in Add16(p.viewport_index, as_u16(selected_index > bottom))} :
                       bottom \in Sub16(below, 1)} :
                       below \in Add16(p.viewport_index, viewport_rows)}} :
            selected_index \in
                IF rows > 0
                THEN {IF last_row = Overflow THEN Overflow
                      ELSE IF saturating_add(p.selected_index, 1) < last_row
                      THEN saturating_add(p.selected_index, 1) ELSE last_row :
                         last_row \in Sub16(p.len % U16, 1)}
                ELSE {saturating_sub(p.selected_index, 1)}} :
            viewport_rows \in Sub16(p.term_rows, 5)}

\* Key::Up
KeyUp ==
    /\ tui.page = "List" /\ ~tui.panic
    /\ tui' \in move_active_selection(tui, 0 - 1)
    /\ UNCHANGED <<vault_vars, alloc_vars, crc_vars, pat_vars, fs_vars, more_vars, widget, sync>>

\* Key::Down; the model stops counting a selection that ran past the
\* lists it has
KeyDown ==
    /\ tui.page = "List" /\ ~tui.panic
    /\ tui.selected_index <= MaxList
    /\ tui' \in move_active_selection(tui, 1)
    /\ UNCHANGED <<vault_vars, alloc_vars, crc_vars, pat_vars, fs_vars, more_vars, widget, sync>>

\* Key::Char(char): the character is added to dir, the list loaded anew
\* and the selection and the viewport put back to 0
KeyChar ==
    \E len \in 0..MaxList :
        /\ tui.page = "List" /\ ~tui.panic
        /\ tui' = [tui EXCEPT !.len = len, !.selected_index = 0, !.viewport_index = 0]
        /\ UNCHANGED <<vault_vars, alloc_vars, crc_vars, pat_vars, fs_vars, more_vars, widget, sync>>

InitListPage ==
    /\ \E term_rows \in TermRows, len \in 0..MaxList : tui = ListPage(term_rows, len)
    /\ widget = NoWidget
    /\ sync = NoSync
    /\ index_vlt = NoFile
    /\ slot_files = [s \in SlotIds |-> NoFile]
    /\ index_crc = NoCrcFile
    /\ last = NoCall
    /\ run = NoRun
    /\ scroll = NoScroll
    /\ eng = NoEng
    /\ book = NoBook
    /\ AllocIdle
    /\ CrcIdle
    /\ PatIdle
    /\ FsIdle

NextListPage == KeyUp \/ KeyDown \/ KeyChar

SpecListPage == InitListPage /\ [][NextListPage]_vars

\* ------------------------------------------------------------------------
\* logic.rs: the event loop, its pages and the history stack
\* ------------------------------------------------------------------------

\* HistoryStack::with_max_capacity(5)
HistoryCapacity == 5

\* the keys of the index map the List page explores
PageKeys == {"a", "ab", "b/c", "bb", "c"}

\* the characters typed on the List page
PageChars == {"a", "b"}

PageOf(kind) == [kind |-> kind, dir |-> "", selected_index |-> 0, viewport_index |-> 0]

\* what peek_mut gives when the loop has ended
NoPage == PageOf("none")

\* the loop before its first page
NoLoop == [queue |-> <<>>, ended |-> FALSE, panic |-> FALSE, term_rows |-> 0,
           checked |-> FALSE, key |-> "none", colon |-> NoPage]

\* what one build of the program gives where the u16 arithmetic overflows:
\* the panic when it was built with overflow checks, the wrapped value
\* when it was built without them
InBuild(checked, widgets) ==
    IF checked /\ \E w \in widgets : w.panic THEN {w \in widgets : w.panic}
    ELSE {w \in widgets : ~w.panic}

\* HistoryStack::push
history_push(queue, page) ==
    <<page>> \o (IF Len(queue) > HistoryCapacity - 1
                 THEN SubSeq(queue, 1, HistoryCapacity - 1) ELSE queue)

\* HistoryStack::pop that takes only Back off the stack
history_pop_once(queue) ==
    IF Len(queue) < 1 \/ Head(queue) # PageOf("Back")
    THEN [panic |-> TRUE, some |-> FALSE, page |-> NoPage, queue |-> queue]
    ELSE IF Len(queue) < 2
    THEN [panic |-> FALSE, some |-> FALSE, page |-> NoPage, queue |-> <<>>]
    ELSE [panic |-> FALSE, some |-> TRUE, page |-> queue[2],
          queue |-> SubSeq(queue, 3, Len(queue))]

\* HistoryStack::pop: Back and the page that returned it are taken off,
\* the page below them is returned; an unwrap of nothing panics
history_pop(queue) ==
    IF Len(queue) < 2 \/ Head(queue) # PageOf("Back")
    THEN [panic |-> TRUE, some |-> FALSE, page |-> NoPage, queue |-> queue]
    ELSE IF Len(queue) < 3
    THEN [panic |-> FALSE, some |-> FALSE, page |-> NoPage, queue |-> <<>>]
    ELSE [panic |-> FALSE, some |-> TRUE, page |-> queue[3],
          queue |-> SubSeq(queue, 4, Len(queue))]

\* the closure of Page::render from a page handed to it to the next page
\* that waits for a key: the page is pushed; Back pops and goes on with
\* the page popped, Exit and an empty stack end the loop
RECURSIVE enter_page(_, _)
enter_page(loop, page) ==
    LET pushed == [loop EXCEPT !.queue = history_push(loop.queue, page)]
        popped == history_pop(pushed.queue)
    IN  IF page.kind = "Exit" THEN [pushed EXCEPT !.ended = TRUE]
        ELSE IF page.kind # "Back" THEN pushed
        ELSE IF popped.panic THEN [pushed EXCEPT !.panic = TRUE]
        ELSE IF ~popped.some THEN [pushed EXCEPT !.queue = popped.queue, !.ended = TRUE]
        ELSE enter_page([pushed EXCEPT !.queue = popped.queue], popped.page)

\* the list the List page shows for a dir
explore_list_of(dir) == explore_contents(PageKeys, dir)

\* the widgets ListPageParams::render can build for the page on top
built_widgets(loop) ==
    IF loop.ended \/ loop.panic \/ Head(loop.queue).kind # "List" THEN {NoWidget}
    ELSE UNION {IF size_rows = Overflow THEN {Panicked(NoWidget)}
                ELSE sanitize([built |-> TRUE, panic |-> FALSE, size_rows |-> size_rows,
                               len |-> Len(explore_list_of(Head(loop.queue).dir)),
                               selected_index |-> Head(loop.queue).selected_index,
                               viewport_index |-> Head(loop.queue).viewport_index]) :
                   size_rows \in Sub16(loop.term_rows, 1)}

\* the loop goes on with the page a render returned; a panic of the next
\* render ends it
GoTo(key, page) ==
    LET loop == [enter_page(tui, page) EXCEPT !.key = key]
    IN  /\ widget' \in InBuild(tui.checked, built_widgets(loop))
        /\ tui' = [loop EXCEPT !.panic = loop.panic \/ widget'.panic]

\* the page on top waits for a key
Waiting(kind) ==
    /\ ~tui.ended /\ ~tui.panic
    /\ Len(tui.queue) >= 1
    /\ Head(tui.queue).kind = kind

\* a key of the List page that moves the selection or changes the list
Stay(key, widgets, dir) ==
    /\ widget' \in InBuild(tui.checked, widgets)
    /\ tui' = [tui EXCEPT !.key = key, !.queue[1].dir = dir, !.panic = widget'.panic]

\* Key::Char('\n') on the Password page
PasswordKeyEnter ==
    \E loaded \in BOOLEAN :
        /\ Waiting("Password")
        /\ GoTo("Enter", IF loaded THEN PageOf("List") ELSE PageOf("Exit"))
        /\ UNCHANGED <<vault_vars, alloc_vars, crc_vars, pat_vars, fs_vars, more_vars, sync>>

ListKeyUp ==
    /\ Waiting("List")
    /\ Stay("Up", set_selected_index(widget, saturating_sub(widget.selected_index, 1)),
            Head(tui.queue).dir)
    /\ UNCHANGED <<vault_vars, alloc_vars, crc_vars, pat_vars, fs_vars, more_vars, sync>>

ListKeyDown ==
    /\ Waiting("List")
    /\ Stay("Down",
            UNION {set_selected_index(widget, index) :
                      index \in Add16(widget.selected_index, 1)},
            Head(tui.queue).dir)
    /\ UNCHANGED <<vault_vars, alloc_vars, crc_vars, pat_vars, fs_vars, more_vars, sync>>

\* Key::Backspace: a separator taken off dir is put back; another
\* character taken off loads the list of the shorter dir
ListKeyBackspace ==
    LET dir == Head(tui.queue).dir
        popped == SubSeq(dir, 1, Len(dir) - 1)
    IN  /\ Waiting("List")
        /\ IF dir = "" \/ ends_with(dir, "/")
           THEN Stay("Backspace", {widget}, dir)
           ELSE Stay("Backspace", set_list(widget, Len(explore_list_of(popped))), popped)
        /\ UNCHANGED <<vault_vars, alloc_vars, crc_vars, pat_vars, fs_vars, more_vars, sync>>

\* Key::Char(char) if char != '/'
ListKeyChar ==
    \E char \in PageChars :
        LET dir == Head(tui.queue).dir \o char
        IN  /\ Waiting("List")
            /\ Len(dir) <= MaxLen
            /\ Stay("Char", set_list(widget, Len(explore_list_of(dir))), dir)
            /\ UNCHANGED <<vault_vars, alloc_vars, crc_vars, pat_vars, fs_vars, more_vars, sync>>

\* Key::Char(':'): the indices of the widget are stored in the page and
\* the Command page is returned
ListKeyColon ==
    LET stored == [Head(tui.queue) EXCEPT !.selected_index = widget.selected_index,
                                          !.viewport_index = widget.viewport_index]
        loop == [enter_page([tui EXCEPT !.queue[1] = stored], PageOf("Command"))
                    EXCEPT !.key = "Colon", !.colon = stored]
    IN  /\ Waiting("List")
        /\ widget' \in InBuild(tui.checked, built_widgets(loop))
        /\ tui' = loop
        /\ UNCHANGED <<vault_vars, alloc_vars, crc_vars, pat_vars, fs_vars, more_vars, sync>>

\* Key::Esc on the Command page
CommandKeyEsc ==
    /\ Waiting("Command")
    /\ GoTo("Esc", PageOf("Back"))
    /\ UNCHANGED <<vault_vars, alloc_vars, crc_vars, pat_vars, fs_vars, more_vars, sync>>

\* Key::Char('\n') on the Command page: "q" exits, any other command
\* writes a message and stays
CommandKeyEnter ==
    \E command \in {"q", "r", "x"} :
        /\ Waiting("Command")
        /\ IF command = "q" THEN GoTo("Enter", PageOf("Exit"))
           ELSE /\ tui' = [tui EXCEPT !.key = "Enter"]
                /\ UNCHANGED widget
        /\ UNCHANGED <<vault_vars, alloc_vars, crc_vars, pat_vars, fs_vars, more_vars, sync>>

\* start_event_loop_blocking: the Password page is on screen
InitLoop ==
    /\ \E term_rows \in TermRows, checked \in BOOLEAN :
           tui = enter_page([NoLoop EXCEPT !.term_rows = term_rows, !.checked = checked],
                            PageOf("Password"))
    /\ widget = NoWidget
    /\ sync = NoSync
    /\ index_vlt = NoFile
    /\ slot_files = [s \in SlotIds |-> NoFile]
    /\ index_crc = NoCrcFile
    /\ last = NoCall
    /\ run = NoRun
    /\ scroll = NoScroll
    /\ eng = NoEng
    /\ book = NoBook
    /\ AllocIdle
    /\ CrcIdle
    /\ PatIdle
    /\ FsIdle

NextLoop ==
    \/ PasswordKeyEnter
    \/ ListKeyUp
    \/ ListKeyDown
    \/ ListKeyBackspace
    \/ ListKeyChar
    \/ ListKeyColon
    \/ CommandKeyEsc
    \/ CommandKeyEnter

SpecLoop == InitLoop /\ [][NextLoop]_vars

\* ------------------------------------------------------------------------
\* sync.rs: SingleLock, taken by threads that run concurrently
\* ------------------------------------------------------------------------

\* AtomicBool::compare_exchange that stores without comparing
compare_exchange_blind(value, current, new) == [ok |-> TRUE, value |-> new]

\* AtomicBool::compare_exchange: one atomic step on the value, also
\* with Ordering::Relaxed
compare_exchange(value, current, new) ==
    IF value = current THEN [ok |-> TRUE, value |-> new]
    ELSE [ok |-> FALSE, value |-> value]

\* the guards of a lock that are alive
GuardsOf(l) == {t \in Threads : l \in sync.guards[t]}

\* a thread calls lock() on a SingleLock
LockCall ==
    \E t \in Threads, l \in Locks :
        /\ sync.pc[t] = "idle"
        /\ sync' = [sync EXCEPT !.pc[t] = "lock", !.arg[t] = l]
        /\ UNCHANGED <<vault_vars, alloc_vars, crc_vars, pat_vars, fs_vars, more_vars, widget, tui>>

\* the compare_exchange of lock(): on Ok the guard is returned, on Err
\* the thread panics and the unwinding drops the guards it holds
LockExchange ==
    \E t \in Threads :
        LET l == sync.arg[t]
            exchanged == compare_exchange(sync.lock[l], FALSE, TRUE)
        IN  /\ sync.pc[t] = "lock"
            /\ sync' =
                 IF exchanged.ok
                 THEN [sync EXCEPT !.lock[l] = exchanged.value, !.pc[t] = "idle",
                                   !.arg[t] = "none", !.guards[t] = @ \cup {l}]
                 ELSE [sync EXCEPT !.lock = [k \in Locks |->
                                                IF k \in sync.guards[t] THEN FALSE
                                                ELSE sync.lock[k]],
                                   !.pc[t] = "panicked", !.guards[t] = {}]
            /\ UNCHANGED <<vault_vars, alloc_vars, crc_vars, pat_vars, fs_vars, more_vars, widget, tui>>

\* Drop for SingleLockGuard
DropGuard ==
    \E t \in Threads, l \in Locks :
        /\ sync.pc[t] = "idle"
        /\ l \in sync.guards[t]
        /\ sync' = [sync EXCEPT !.lock[l] = FALSE, !.guards[t] = @ \ {l}]
        /\ UNCHANGED <<vault_vars, alloc_vars, crc_vars, pat_vars, fs_vars, more_vars, widget, tui>>

InitSync ==
    /\ sync = NoSync
    /\ widget = NoWidget
    /\ tui = NoTui
    /\ index_vlt = NoFile
    /\ slot_files = [s \in SlotIds |-> NoFile]
    /\ index_crc = NoCrcFile
    /\ last = NoCall
    /\ run = NoRun
    /\ scroll = NoScroll
    /\ eng = NoEng
    /\ book = NoBook
    /\ AllocIdle
    /\ CrcIdle
    /\ PatIdle
    /\ FsIdle

NextSync == LockCall \/ LockExchange \/ DropGuard

SpecSync == InitSync /\ [][NextSync]_vars



\* ------------------------------------------------------------------------
\* Properties
\* ------------------------------------------------------------------------

\* the password opens the stored index: there is none, or it was sealed
\* under the key the password pads to
Opens(password) ==
    \/ index_vlt.kind = "absent"
    \/ /\ index_vlt.kind = "sealed"
       /\ index_vlt.key = format_pad(password)

\* the least integer >= start that is not in S
LeastAbsent(S, start) ==
    CHOOSE n \in start..(start + Cardinality(S)) :
        n \notin S /\ \A m \in start..(n - 1) : m \in S

Completed(call) == call.result.err = "None"

SameSecret(call1, call2) ==
    call1.path = call2.path /\ call1.password = call2.password

\* C1: a completed set(p, c, pw) immediately followed by get(p, pw) makes
\* the get return exactly c.
C1_RoundTrip ==
    [][(last.op = "set" /\ Completed(last) /\ last'.op = "get" /\ SameSecret(last, last'))
        => last'.result = Ok(last.contents)]_vars

C1_Witness ==
    /\ last.op = "get" /\ last.after = "set"
    /\ last.result = Ok("w")
    /\ Cardinality(DOMAIN Index) > 1

\* C2: a completed set(p, c, pw1) immediately followed by get(p, pw2) with
\* pw2 # pw1 returns IncorrectPassword, never contents.
C2_WrongPassword ==
    [][(last.op = "set" /\ Completed(last) /\ last'.op = "get"
        /\ last'.path = last.path /\ last'.password # last.password)
        => last'.result = IncorrectPassword]_vars

\* C3: no two distinct paths of the Index map to the same slot id.
C3_SlotUniqueness ==
    \A p, q \in DOMAIN Index : p # q => SlotOf(p) # SlotOf(q)

\* C4: a completed set of a path that is not in the Index gives it the
\* smallest slot id, counted from the starting value 0, that no Index entry
\* uses.
C4_SlotAllocation ==
    [][(last'.op = "set" /\ Completed(last') /\ Opens(last'.password)
        /\ last'.path \notin DOMAIN Index)
        => parse_u16(Index'[last'.path]) = LeastAbsent(Values(Index), 0)]_vars

\* C5: for a map of distinct values >= 1, get_minimum_available_value is the
\* least integer >= 1 that is not a value of the map; a value handed out for
\* a new key was not in use, and the values stay distinct.
C5_MinimumAvailable ==
    /\ get_minimum_available_value(dict) = LeastAbsent(Values(dict), 1)
    /\ alloc.fresh =>
        /\ alloc.val = LeastAbsent(alloc.before, 1)
        /\ alloc.val \notin alloc.before
        /\ parse_u16(dict[alloc.key]) = alloc.val
    /\ \A p, q \in DOMAIN dict : p # q => parse_u16(dict[p]) # parse_u16(dict[q])

C5_Witness ==
    /\ alloc.op = "set" /\ alloc.fresh
    /\ alloc.before = {1, 3, 4}
    /\ alloc.val = 2

\* C6: a set on a path that has a slot id leaves every Index mapping as it
\* was, touches no slot file other than that path's slot and, when it
\* completes, has written the contents to that slot.
C6_SetKnownPath ==
    [][(last'.op = "set" /\ last'.path \in DOMAIN Index)
        => /\ Index' = Index
           /\ \A s \in SlotIds \ {SlotOf(last'.path)} : slot_files'[s] = slot_files[s]
           /\ Completed(last') =>
                slot_files'[SlotOf(last'.path)].data = as_bytes(last'.contents)]_vars

C6_Witness ==
    /\ last.op = "set" /\ Completed(last) /\ last.after \in {"set", "get"}
    /\ last.path \in DOMAIN Index
    /\ \E q \in DOMAIN Index :
        /\ SlotOf(q) # SlotOf(last.path)
        /\ slot_files[SlotOf(q)].kind = "sealed"

\* C7: get(p, pw) returns NonExistentPath and changes no file when the
\* index file is absent (any password) or opens under pw to an Index
\* without p.
C7_MissingPath ==
    [][(last'.op = "get" /\ Opens(last'.password) /\ last'.path \notin DOMAIN Index)
        => /\ last'.result = NonExistentPath
           /\ UNCHANGED <<index_vlt, slot_files, index_crc>>]_vars

C7_Witness ==
    /\ last.op = "get" /\ last.result = NonExistentPath
    /\ DOMAIN Index # {}
    /\ last.path \notin DOMAIN Index

\* C8: a completed remove(p, pw) leaves no slot file and no ledger entry for
\* the slot p had, and a get(p, pw) right after it returns NonExistentPath.
C8_RemoveThenGet ==
    [][/\ (last'.op = "remove" /\ Completed(last') /\ last'.path \in DOMAIN Index)
            => /\ slot_files'[SlotOf(last'.path)] = NoFile
               /\ SlotOf(last'.path) \notin DOMAIN index_crc'.map
               /\ last'.path \notin DOMAIN Index'
       /\ (last.op = "remove" /\ Completed(last) /\ last'.op = "get"
           /\ SameSecret(last, last'))
            => last'.result = NonExistentPath]_vars

C8_Witness ==
    /\ last.op = "get" /\ last.after = "remove"
    /\ last.result = NonExistentPath
    /\ DOMAIN Index # {}

\* C9: remove(p, pw) of a path that the Index opened by pw does not have
\* returns NonExistentPath and leaves index.vlt, the slot files and the
\* ledger as they were.
C9_RemoveMissing ==
    [][(last'.op = "remove" /\ Opens(last'.password) /\ last'.path \notin DOMAIN Index)
        => /\ last'.result = NonExistentPath
           /\ UNCHANGED <<index_vlt, slot_files, index_crc>>]_vars

C9_Witness ==
    /\ last.op = "remove" /\ last.result = NonExistentPath
    /\ DOMAIN Index # {}
    /\ last.path \notin DOMAIN Index

\* a get of a path whose slot file was overwritten by the call before
TamperedGet ==
    /\ last.op = "tamper" /\ last'.op = "get"
    /\ Opens(last'.password)
    /\ last'.path \in DOMAIN Index
    /\ SlotOf(last'.path) = last.slot

C11_CheckAll ==
    crc_last.op = "check_all" =>
        LET stored == crc_ledger.map
            present == PresentFiles(CrcDisk)
        IN  /\ (\E n \in present :
                    n \notin DOMAIN stored \/ stored[n] # checksum(crc_dir[n]))
                => ~crc_last.result.ok
            /\ ((\A n \in present :
                    n \in DOMAIN stored /\ stored[n] = checksum(crc_dir[n]))
                /\ DOMAIN stored \subseteq present)
                => crc_last.result = CrcOk

\* check_crc_all reported the file whose stored checksum is not the one
\* of its bytes
C11_Witness ==
    /\ crc_last.op = "check_all"
    /\ crc_last.result = CrcMismatchError("path")
    /\ "path" \in DOMAIN crc_ledger.map
    /\ crc_dir["path"].kind # "absent"
    /\ crc_ledger.map["path"] # checksum(crc_dir["path"])


\* what check_crc is to return for a path: Ok exactly when the ledger
\* holds, under the path as the caller wrote it, the CRC32 of the file
CheckOneByEntry(path, result) ==
    LET key == to_path_str(path)
        file == crc_dir[to_filename_str(path)]
        stored == crc_ledger.map
    IN  /\ result = CrcOk <=>
              (file.kind # "absent" /\ key \in DOMAIN stored /\ stored[key] = checksum(file))
        /\ result # CrcOk => result = CrcMismatchError(to_filename_str(path))

C13_UpdateAllThenCheckAll ==
    [][/\ crc_last'.op = "update_all" =>
            /\ crc_ledger'.exists
            /\ crc_ledger'.map = FreshMap(CrcDisk)
            /\ crc_dir' = crc_dir
       /\ (crc_last.op = "update_all" /\ crc_last'.op = "check_all")
            => crc_last'.result = CrcOk]_vars

\* check_crc_all returned Ok right after update_crc_all on a directory
\* that holds files
C13_Witness ==
    /\ crc_last.op = "check_all"
    /\ crc_last.after = "update_all"
    /\ crc_last.result = CrcOk
    /\ PresentFiles(CrcDisk) = CrcFileNames
    /\ DOMAIN crc_ledger.map = CrcFileNames


C15_LedgerInvariant ==
    (last.op \in {"set", "remove"} /\ Completed(last)) =>
        /\ DOMAIN index_crc.map = {s \in SlotIds : slot_files[s].kind # "absent"}
        /\ \A s \in DOMAIN index_crc.map : index_crc.map[s] = checksum(slot_files[s])
        /\ \A result \in check_crc_all(Disk) : result.err = "None"

\* a set completed right after a completed remove of the same path: the
\* entry the remove deleted is back
C15_Witness ==
    /\ last.op = "set"
    /\ last.after = "remove"
    /\ Completed(last)
    /\ DOMAIN index_crc.map = {0}
    /\ index_crc.map[0] = checksum(slot_files[0])


\* C16: compute_crc_all and check_crc_all ignore the ledger file and OS
\* cache artifacts: a .DS_Store file in an otherwise consistent directory
\* does not make check_crc_all return CrcMismatch, and update_crc_all
\* never records an entry for it or for index.crc.
C16_IgnoresCacheFiles ==
    LET stored == crc_ledger.map
        tracked == PresentFiles(CrcDisk) \ {".DS_Store"}
    IN  /\ (/\ crc_last.op = "check_all"
            /\ DOMAIN stored = tracked
            /\ \A n \in tracked : stored[n] = checksum(crc_dir[n]))
            => crc_last.result = CrcOk
        /\ crc_last.op = "update_all" =>
            (".DS_Store" \notin DOMAIN stored /\ "index.crc" \notin DOMAIN stored)


\* C17: update_crc and check_crc_all key the ledger the same way: from a
\* directory for which check_crc_all is Ok, writing a file of the
\* directory and then calling update_crc for it leaves check_crc_all
\* returning Ok.
C17_SameKeys ==
    [][(/\ crc_last.op = "write"
        /\ crc_last.after = "consistent"
        /\ crc_last'.op = "update"
        /\ to_filename_str(crc_last'.path) = to_filename_str(crc_last.path))
        => crc_check_crc_all([dir |-> crc_dir', ledger |-> crc_ledger']) = {CrcOk}]_vars


\* ------------------------------------------------------------------------
\* The pattern matcher
\* ------------------------------------------------------------------------

\* the keys a pattern string is to select: the key equal to it when it has
\* no trailing '*'; with one trailing '*' the keys that start with the
\* rest and have as many '/' as the rest; with trailing '**' the keys
\* that start with the rest
Selected(keys, value) ==
    IF ends_with(value, "**")
    THEN {k \in keys : starts_with(k, SubSeq(value, 1, Len(value) - 2))}
    ELSE IF ends_with(value, "*")
    THEN {k \in keys :
            /\ starts_with(k, SubSeq(value, 1, Len(value) - 1))
            /\ matches_count(k) = matches_count(SubSeq(value, 1, Len(value) - 1))}
    ELSE {k \in keys : k = value}

\* C18: over in-memory keys a pattern string with no trailing '*' matches
\* only the key equal to it, with a single trailing '*' exactly the keys
\* that start with the prefix and have the prefix's number of '/', with
\* trailing '**' exactly the keys that start with the prefix; for the keys
\* {d1/f1, d1/f2, d1/s/f3, d2/f1}, 'd1/*' selects {d1/f1, d1/f2} and
\* 'd1/**' selects {d1/f1, d1/f2, d1/s/f3}.
C18_PatternMatching ==
    pat_last.op \in {"filter_pattern", "get_matching_keys"} =>
        /\ Range(pat_last.out) = Selected(pat_keys, pat_last.arg)
        /\ Len(pat_last.out) = Cardinality(Range(pat_last.out))
        /\ (pat_keys = {"d1/f1", "d1/f2", "d1/s/f3", "d2/f1"} /\ pat_last.arg = "d1/*")
            => Range(pat_last.out) = {"d1/f1", "d1/f2"}
        /\ (pat_keys = {"d1/f1", "d1/f2", "d1/s/f3", "d2/f1"} /\ pat_last.arg = "d1/**")
            => Range(pat_last.out) = {"d1/f1", "d1/f2", "d1/s/f3"}

\* the same-level pattern 'd1/*' left out the deeper key d1/s/f3
C18_Witness ==
    /\ pat_last.op = "filter_pattern"
    /\ pat_last.arg = "d1/*"
    /\ pat_keys = {"d1/f1", "d1/f2", "d1/s/f3", "d2/f1"}
    /\ Range(pat_last.out) = {"d1/f1", "d1/f2"}


\* C19: list returns the matching paths of the index in ascending sorted
\* order, each matching path exactly once, for every index and pattern.
C19_ListSorted ==
    (last.op = "list" /\ Completed(last)) =>
        /\ Range(last.list) = {k \in DOMAIN Index : starts_with(k, last.path)}
        /\ \A i, j \in 1..Len(last.list) : i < j => str_less(last.list[i], last.list[j])


\* the next path segment of a key after a prefix: what follows the
\* prefix's last '/', up to and with the next '/' when there is one
NextSegment(key, prefix) ==
    LET after_dir == IF match_indices(prefix) = {} THEN 0
                     ELSE CHOOSE i \in match_indices(prefix) :
                            \A j \in match_indices(prefix) : j <= i
        rest == SubSeq(key, after_dir + 1, Len(key))
    IN  IF match_indices(rest) = {} THEN rest
        ELSE SubSeq(rest, 1, CHOOSE i \in match_indices(rest) :
                                \A j \in match_indices(rest) : i <= j)

\* C20: explore_contents returns, without duplicates and in ascending
\* lexicographic order of the returned strings, the next path segment of
\* every key that starts with the prefix and whose '/' count is the
\* prefix's or one more, a segment followed by a further '/' with a
\* trailing '/'; for keys {any, else, animal/dog, animal/cat} prefix 'an'
\* gives [animal/, any] and prefix 'animal/' gives [cat, dog].
C20_ExploreContents ==
    pat_last.op = "explore_contents" =>
        LET prefix == pat_last.arg
            out == pat_last.out
            explored == {k \in pat_keys :
                            /\ starts_with(k, prefix)
                            /\ matches_count(k) - matches_count(prefix) \in {0, 1}}
        IN  /\ Range(out) = {NextSegment(k, prefix) : k \in explored}
            /\ \A i, j \in 1..Len(out) : i < j => str_less(out[i], out[j])
            /\ (pat_keys = {"any", "else", "animal/dog", "animal/cat"} /\ prefix = "an")
                => out = <<"animal/", "any">>
            /\ (pat_keys = {"any", "else", "animal/dog", "animal/cat"} /\ prefix = "animal/")
                => out = <<"cat", "dog">>


\* the regular files of a tree that are no system cache files
RegularFiles(tree) == {p \in tree.files : file_name(p) \notin IGNORE}

\* C21: for a pattern 'pre*', match_files returns exactly the regular
\* non-artifact files under the working directory whose relative path
\* starts with 'pre' and has as many '/' as 'pre', each once, also when
\* 'pre' names an existing directory.
C21_SameLevelFiles ==
    (fs_last.op = "match_files" /\ from_str(fs_last.pattern).kind = "SameLevel") =>
        /\ Range(fs_last.out) = Selected(RegularFiles(fs_last.before), fs_last.pattern)
        /\ Len(fs_last.out) = Cardinality(Range(fs_last.out))


\* the directories of a tree that hold no entry
EmptyDirs(tree) == {d \in tree.dirs : fs_read_dir(tree, d) = {}}

\* C22: remove_files deletes exactly the files match_files gives for the
\* pattern, leaves every other non-artifact file in place, leaves no
\* directory of the working directory (itself included) empty, and returns
\* the removed relative paths in ascending sorted order.
C22_RemoveFiles ==
    fs_last.op = "remove_files" =>
        /\ \E matches \in match_files(fs_last.before, from_str(fs_last.pattern)) :
                /\ Range(fs_last.out) = Range(matches)
                /\ RegularFiles(fs_tree) = RegularFiles(fs_last.before) \ Range(matches)
        /\ EmptyDirs(fs_tree) = {}
        /\ \A i, j \in 1..Len(fs_last.out) :
                i < j => str_less(fs_last.out[i], fs_last.out[j])


EngIndex(e, password) == eng_decrypt_kv(e, password).val

\* the ledger of the lock directory does not hold the checksum of the
\* slot file of a key
SlotFails(e, index_map, key) ==
    LET name == slot_file_name(parse_u16(index_map[key]))
    IN  name \notin DOMAIN e.crc \/ e.crc[name] # checksum(eng_file(e, name))

\* C24: bulk export takes the matching paths in sorted order and verifies
\* each slot's checksum before decrypting it: when the checksum of the
\* k-th match is the first to fail, the call returns CrcMismatch, the
\* plaintext files of the matches before k have been written and are on
\* disk, and none is written for match k or a later one.
C24_BulkExport ==
    [][(/\ eng'.last.op = "get_secret"
        /\ eng' # eng
        /\ eng.index.kind = "sealed"
        /\ eng_decrypt_kv(eng, eng'.last.password).ok) =>
          LET index_map == EngIndex(eng, eng'.last.password)
              matches == get_matching_keys(index_map, eng'.last.pattern)
              failing == {i \in 1..Len(matches) : SlotFails(eng, index_map, matches[i])}
          IN  failing # {} =>
                LET k == CHOOSE i \in failing : \A j \in failing : i <= j
                IN  /\ eng'.last.result.err = "CrcMismatch"
                    /\ Len(eng'.last.done) = k - 1
                    /\ \A i \in 1..(k - 1) :
                          /\ eng'.last.done[i].key = matches[i]
                          /\ matches[i] \in DOMAIN eng'.unlock
                          /\ eng'.unlock[matches[i]] = eng'.last.done[i].contents
                    /\ \A i \in k..Len(matches) :
                          /\ (matches[i] \in DOMAIN eng'.unlock)
                                = (matches[i] \in DOMAIN eng.unlock)
                          /\ matches[i] \in DOMAIN eng.unlock =>
                                eng'.unlock[matches[i]] = eng.unlock[matches[i]]]_vars


\* C25: bulk import persists per item: when it aborts at the k-th matched
\* file, the persisted index holds the mappings of the k-1 files imported
\* before it, their slot files hold their contents and the ledger holds
\* the slot files' checksums, so that get reads each of them back.
C25_BulkImport ==
    (eng.last.op = "set_secret" /\ eng.last.result.err # "None") =>
        \A i \in 1..Len(eng.last.done) :
            LET key == eng.last.done[i].key
                index_map == EngIndex(eng, eng.last.password)
            IN  /\ eng_decrypt_kv(eng, eng.last.password).ok
                /\ key \in DOMAIN index_map
                /\ ~SlotFails(eng, index_map, key)
                /\ decrypt(eng.slots[parse_u16(index_map[key])], eng.last.password).val.str
                      = eng.last.done[i].contents


\* the index map a lock directory holds in index.vlt, whatever the password
IndexOf(d) ==
    IF d.index_vlt.kind = "sealed" /\ d.index_vlt.data.is_json
    THEN from_str_json(d.index_vlt.data) ELSE EmptyMap

\* the slot files of a lock directory no entry of its index refers to
OrphanSlots(d) ==
    {s \in SlotIds :
        /\ d.slot_files[s].kind # "absent"
        /\ \A k \in DOMAIN IndexOf(d) : parse_u16(IndexOf(d)[k]) # s}

\* the ledger entries of a lock directory that have no slot file
OrphanEntries(d) ==
    {s \in DOMAIN d.index_crc.map : d.slot_files[s].kind = "absent"}

\* the persisted index maps the path of the call in progress to its slot
Referenced ==
    /\ run.path \in DOMAIN IndexOf(Disk)
    /\ parse_u16(IndexOf(Disk)[run.path]) = run.file_index

\* C26: set of a path the index does not have rewrites index.vlt with the
\* new mapping before it writes the slot file, and updates the slot's
\* ledger entry only after the slot file is written; so wherever set is
\* stopped, a slot file it wrote is referenced by the persisted index, and
\* it has left no slot file without an index entry and no ledger entry
\* without a slot file that was not there when it began.
C26_SetStepOrder ==
    /\ [](run.op = "set" =>
            /\ "write_encrypted_file" \in run.did =>
                  /\ Referenced
                  /\ run.fresh => "write_index_file" \in run.did
            /\ "write_encrypted_file" \notin run.did =>
                  slot_files[run.file_index] = run.start.slot_files[run.file_index]
            /\ index_crc = run.start.index_crc
            /\ OrphanSlots(Disk) \subseteq OrphanSlots(run.start)
            /\ OrphanEntries(Disk) \subseteq OrphanEntries(run.start))
    /\ [][(run.op = "set" /\ index_crc' # index_crc) =>
            "write_encrypted_file" \in run.did]_vars

\* set was stopped after it wrote the slot file of a new path and before
\* it updated the ledger
C26_Witness ==
    /\ run.op = "set"
    /\ run.fresh
    /\ run.did = {"write_index_file", "write_encrypted_file"}
    /\ Referenced
    /\ slot_files[run.file_index] # run.start.slot_files[run.file_index]
    /\ run.file_index \notin DOMAIN index_crc.map


\* C27: remove persists the index without the path first, then deletes
\* the slot file, then removes the ledger entry; so wherever remove(p, pw)
\* is stopped, the persisted index does not map p to a slot file this
\* remove has deleted.
C27_RemoveStepOrder ==
    /\ [](run.op = "remove" =>
            /\ "remove_encrypted_file" \in run.did =>
                  /\ "write_index_file" \in run.did
                  /\ run.path \notin DOMAIN IndexOf(Disk)
            /\ "write_index_file" \in run.did => run.path \notin DOMAIN IndexOf(Disk)
            /\ "remove_encrypted_file" \notin run.did =>
                  slot_files[run.file_index] = run.start.slot_files[run.file_index]
            /\ index_crc = run.start.index_crc)
    /\ [][(run.op = "remove" /\ index_crc' # index_crc) =>
            "remove_encrypted_file" \in run.did]_vars

\* remove was stopped after it deleted the slot file and before it removed
\* the ledger entry
C27_Witness ==
    /\ run.op = "remove"
    /\ run.did = {"write_index_file", "remove_encrypted_file"}
    /\ slot_files[run.file_index].kind = "absent"
    /\ run.start.slot_files[run.file_index].kind # "absent"
    /\ run.file_index \in DOMAIN index_crc.map
    /\ run.path \notin DOMAIN IndexOf(Disk)


\* C28: calculate_scroll_state(i, view, total) returns (0, 0) when
\* total <= view; otherwise scroll_size = max(view * view / total, 1)
\* and, for every 0 <= i <= total - view, scroll_pos + scroll_size <= view,
\* scroll_pos = 0 at i = 0, scroll_pos = view - scroll_size at
\* i = total - view, and scroll_pos does not decrease as i grows.
C28_ScrollState ==
    scroll.op = "calculate_scroll_state" =>
        LET i == scroll.i
            view == scroll.view
            total == scroll.total
            out == scroll.out
        IN  /\ ~out.panic
            /\ total <= view => (out.scroll_size = 0 /\ out.scroll_pos = 0)
            /\ total > view =>
                  /\ out.scroll_size =
                        (IF (view * view) \div total > 1 THEN (view * view) \div total ELSE 1)
                  /\ i <= total - view =>
                        /\ out.scroll_pos + out.scroll_size <= view
                        /\ i = 0 => out.scroll_pos = 0
                        /\ i = total - view => out.scroll_pos = view - out.scroll_size
                        /\ \A j \in 0..i :
                              \A before \in calculate_scroll_state(j, view, total) :
                                  ~before.panic /\ before.scroll_pos <= out.scroll_pos


\* what get gives for a path according to the book
BookAnswer(secret_path) ==
    IF secret_path \in DOMAIN book.entries THEN Ok(book.entries[secret_path])
    ELSE NonExistentPath

\* C29: the vault behaves as a map from paths to contents: after any
\* sequence of completed set and remove calls made with one password,
\* get(p, pw) returns the contents of the most recent set of p when p has
\* not been removed since, and NonExistentPath otherwise; a set or remove
\* of a path q # p never changes what get(p, pw) returns.
C29_VaultIsMap ==
    /\ [](book.in_order /\ last.op = "get" => last.result = BookAnswer(last.path))
    /\ [][(BookSet \/ BookRemove) /\ book'.in_order =>
            \A p \in Paths \ {last'.path} :
                get_secret(Disk, p, last'.password)
                    = get_secret([index_vlt |-> index_vlt', slot_files |-> slot_files',
                                  index_crc |-> index_crc'], p, last'.password)]_vars


\* C30: on a vault whose index file exists, set(p, c, pw') and
\* remove(p, pw') with a password pw' that does not open the index return
\* IncorrectPassword before anything is written: index.vlt, every slot
\* file and the checksum ledger are unchanged.
C30_WrongPasswordWritesNothing ==
    [][(/\ last'.op \in {"set", "remove"}
        /\ index_vlt.kind # "absent"
        /\ ~Opens(last'.password)) =>
           (/\ last'.result = IncorrectPassword
            /\ UNCHANGED <<index_vlt, slot_files, index_crc>>)]_vars

\* a set was refused on an existing index that its password does not open
C30_Witness ==
    /\ last.op = "set"
    /\ last.result = IncorrectPassword
    /\ index_vlt.kind # "absent"
    /\ ~Opens(last.password)
    /\ \E s \in SlotIds : slot_files[s].kind # "absent"


\* C31: if set(p, c, pw) stops after the index was persisted and before
\* the ledger entry of the slot was updated, a later get(p, pw) returns
\* CrcMismatch, never contents and never a crash, and a later completed
\* set(p, c2, pw) makes get(p, pw) return c2 with the ledger entry of the
\* slot consistent again.
C31_InterruptedSetRecovers ==
    [][RecoverGet =>
          IF run.op = "stopped"
          THEN last'.result = CrcMismatch(run.file_index)
          ELSE /\ last'.result = Ok(run.contents)
               /\ check_crc(Disk, run.file_index)]_vars


\* the ledger entries whose slot file is not in the lock directory
LedgerOnly == {k \in DOMAIN index_crc.map : slot_files[k].kind = "absent"}

\* C32: check_all returns CrcMismatch when the ledger holds an entry for a
\* file that is no longer present in the lock directory, for example after
\* a remove stopped between deleting the slot file and updating the ledger.
C32_CheckAllSeesMissingFile ==
    [][(CheckAllIdle /\ LedgerOnly # {}) =>
           last'.result.err = "CrcMismatch"]_vars

\* check_all made after a remove that deleted its slot file and never
\* updated the ledger
C32_Witness ==
    /\ last.op = "check_all"
    /\ last.result.err = "CrcMismatch"
    /\ run = NoRun
    /\ LedgerOnly # {}
    /\ \A k \in DOMAIN index_crc.map :
           slot_files[k].kind # "absent" => checksum(slot_files[k]) = index_crc.map[k]
    /\ \A s \in SlotIds : slot_files[s].kind # "absent" => s \in DOMAIN index_crc.map


\* the prefix up to its last separator: the directory the entries of
\* explore_contents are relative to
DirOf(prefix) ==
    IF match_indices(prefix) = {} THEN ""
    ELSE SubSeq(prefix, 1, CHOOSE i \in match_indices(prefix) :
                               \A j \in match_indices(prefix) : j <= i)

\* the key is the file the entry names, or lies in the branch it names
Under(k, dir, e) ==
    IF ends_with(e, "/") THEN starts_with(k, dir \o e) ELSE k = dir \o e

\* C33: for every key k of the key set that starts with prefix,
\* explore_contents(keys, prefix) contains an entry e, the file name
\* completing k or a 'segment/' branch, such that k lies under prefix + e;
\* no key is hidden because it lies more than one level below the prefix.
C33_BrowsingReachesEveryKey ==
    pat_last.op = "explore_contents" =>
        \A k \in {i \in pat_keys : starts_with(i, pat_last.arg)} :
            \E n \in 1..Len(pat_last.out) :
                Under(k, DirOf(pat_last.arg), pat_last.out[n])


\* the rows of the list a widget shows: size.0 less the borders and title
ViewRows == widget.size_rows - 4

\* C34: after build() and after any sequence of select_prev, select_next
\* and set_list on a widget with at least one view row,
\* selected_index <= max(len - 1, 0),
\* viewport_index <= selected_index <= viewport_index + view_rows - 1 and
\* viewport_index <= max(len - view_rows, 0): the selected row is always
\* inside the visible window.
C34_SelectionInView ==
    (widget.built /\ ViewRows >= 1) =>
        /\ ~widget.panic
        /\ widget.selected_index <= (IF widget.len >= 1 THEN widget.len - 1 ELSE 0)
        /\ widget.viewport_index <= widget.selected_index
        /\ widget.selected_index <= widget.viewport_index + ViewRows - 1
        /\ widget.viewport_index <=
               (IF widget.len >= ViewRows THEN widget.len - ViewRows ELSE 0)

\* the selection was moved below the first window of a list longer than
\* the window
C34_Witness ==
    /\ widget.built
    /\ ~widget.panic
    /\ ViewRows >= 1
    /\ widget.len > ViewRows
    /\ widget.viewport_index >= 1
    /\ widget.selected_index = widget.viewport_index + ViewRows - 1


\* C35: in the interactive List page, an Up or Down key while the explored
\* list is empty leaves selected_index and viewport_index at 0, with no
\* u16 underflow of len - 1 and no index past the end of the list.
C35_EmptyListMoveIsHarmless ==
    [][((KeyUp \/ KeyDown) /\ tui.len = 0
            /\ tui.selected_index = 0 /\ tui.viewport_index = 0) =>
           (~tui'.panic /\ tui'.selected_index = 0 /\ tui'.viewport_index = 0)]_vars


C37_SingleLockExcludes ==
    /\ [](\A l \in Locks : Cardinality(GuardsOf(l)) <= 1)
    /\ [][\A t \in Threads :
            (sync.pc[t] = "lock" /\ sync'.pc[t] # "lock") =>
                IF GuardsOf(sync.arg[t]) # {}
                THEN sync'.pc[t] = "panicked" /\ sync'.guards[t] = {}
                ELSE sync'.pc[t] = "idle"
                     /\ sync'.guards[t] = sync.guards[t] \cup {sync.arg[t]}]_vars

\* a thread that holds the guard of index_map is in lock() of pass while
\* another thread holds the guard of pass
C37_Witness ==
    \E t \in Threads : \E u \in Threads \ {t} :
        /\ "pass" \in sync.guards[t]
        /\ sync.pc[u] = "lock"
        /\ sync.arg[u] = "pass"
        /\ "index_map" \in sync.guards[u]

====
